---------------------------- MODULE Spec2Model ----------------------------
(***************************************************************************)
(* Model of the usage accounting of cursor-stats:                          *)
(*   - services/api.ts   : fetchMonthData, fetchCursorStats                *)
(*   - services/team.ts  : checkTeamMembership, getTeamSpend,              *)
(*                         extractUserSpend, the user cache                *)
(*   - utils/updateStats : the cost / unpaid computation of updateStats    *)
(*                                                                         *)
(* Money is kept in integer cents; a date is the local civil date and a    *)
(* tick of the day, as the host Date object shows it through getMonth,     *)
(* getFullYear, setMonth and setFullYear.                                  *)
(***************************************************************************)
EXTENDS Integers, Sequences, FiniteSets, TLC

VARIABLES
    pc,                  \* position of the run
    subscriptionStart,   \* new Date(premiumRequests.startOfMonth)
    currentDate,         \* new Date()
    currentPeriodStart,
    previousPeriodStart,
    currentInvoice,      \* what get-monthly-invoice answered for the current period
    lastInvoice,         \* what get-monthly-invoice answered for the previous period
    currentMonthData,
    lastMonthData,
    token,               \* the token updateStats read
    fetchToken,          \* the token parameter of the running fetchCursorStats
    attempt,             \* 1 for fetchCursorStats(token), 2 for the retry with newToken
    error,               \* error.response?.status of the error fetchCursorStats raised
    userCache,           \* the content of user-cache.json, Nil when loadUserCache gives null
    teamInfo,
    teamSpend,           \* what get-team-spend answered
    individualUsage,     \* what /api/usage answered in the team branch
    usageResponse,       \* what /api/usage answered in the fallback branch
    teamSpendCents,
    isUsingTeamSpend,
    premiumRequests,
    stats,               \* the CursorStats fetchCursorStats returned
    activeMonthData,     \* "current" or "last"
    actualTotalCost,     \* in cents
    useTeamSpendData,
    unpaidAmount,        \* [amount |-> cents] once computed
    lookedUp,            \* the subjects a fresh membership lookup was started for
    lookupRequests,      \* requests the last checkTeamMembership call has sent
    detectedUnknownModels,
    unknownModelNotificationShown,
    notified,            \* this run of updateStats showed the unknown-models message
    sessionTokens,       \* the tokens getCursorTokenFromDB can return in this session
    consecutiveErrorCount,
    cooldownStartTime,   \* Nil for null
    runs,                \* the runs of updateStats that interleave at their await points
    errorStateAtStart    \* the error count and the cooldown as the last run started

periodVars == <<subscriptionStart, currentDate, currentPeriodStart, previousPeriodStart>>
monthVars == <<currentInvoice, lastInvoice, currentMonthData, lastMonthData>>

runVars == <<token, fetchToken, attempt, error>>
teamVars == <<teamInfo, teamSpend, individualUsage, usageResponse, teamSpendCents,
              isUsingTeamSpend, premiumRequests>>
costVars == <<activeMonthData, actualTotalCost, useTeamSpendData, unpaidAmount>>

lookupVars == <<lookedUp, lookupRequests>>
modelVars == <<detectedUnknownModels, unknownModelNotificationShown, notified>>

errorVars == <<consecutiveErrorCount, cooldownStartTime>>
hostVars == <<sessionTokens, runs, errorStateAtStart>>

vars == <<pc, periodVars, monthVars, runVars, userCache, teamVars, stats, costVars,
          lookupVars, modelVars, errorVars, hostVars>>

\* an absent string
None == "none"
\* an absent object
Nil == [absent |-> TRUE]
\* an absent number (undefined or null)
Undefined == 0 - 1
\* the truthiness of an optional number
Truthy(n) == n # Undefined /\ n # 0

\* the variables of updateStats and fetchCursorStats before a run
NoFetch ==
    /\ teamInfo = Nil
    /\ teamSpend = Nil
    /\ individualUsage = Nil
    /\ usageResponse = Nil
    /\ teamSpendCents = Undefined
    /\ isUsingTeamSpend = FALSE
    /\ premiumRequests = Nil
    /\ stats = Nil
    /\ activeMonthData = None
    /\ actualTotalCost = 0
    /\ useTeamSpendData = FALSE
    /\ unpaidAmount = Nil
    /\ lookupRequests = 0
    /\ notified = FALSE

NoRun ==
    /\ token = Nil
    /\ fetchToken = Nil
    /\ attempt = 0
    /\ error = Undefined
    /\ userCache = Nil
    /\ lookedUp = {}
    /\ detectedUnknownModels = {}
    /\ unknownModelNotificationShown = FALSE
    /\ consecutiveErrorCount = 0
    /\ cooldownStartTime = Nil
    /\ runs = <<>>
    /\ errorStateAtStart = Nil
    /\ NoFetch

(***************************************************************************)
(* Bounds of the model.                                                    *)
(***************************************************************************)
\* number of calendar years the inputs range over, starting with 2023
YearSpan == 2
\* last tick of a day (time of day is 0..LastTick)
LastTick == 1

\* updateStats is not started again once this many runs in a row have failed
MaxErrors == 2

Years == 2023 .. (2023 + YearSpan - 1)
Ticks == 0 .. LastTick

(***************************************************************************)
(* The host Date object.                                                   *)
(***************************************************************************)
IsLeap(y) == (y % 4 = 0 /\ y % 100 # 0) \/ y % 400 = 0

\* m is a month index 0..11
DaysInMonth(y, m) ==
    IF m = 1 THEN (IF IsLeap(y) THEN 29 ELSE 28)
    ELSE IF m \in {3, 5, 8, 10} THEN 30
    ELSE 31

\* MakeDay/MakeDate of the host: a month index outside 0..11 carries into the
\* year, a day past the end of the month carries into the next month.
MakeDate(y, m, d, t) ==
    LET yy == y + (m \div 12)
        mm == m % 12
        dim == DaysInMonth(yy, mm)
    IN  IF d <= dim
        THEN [y |-> yy, m |-> mm, d |-> d, t |-> t]
        ELSE [y |-> yy + ((mm + 1) \div 12), m |-> (mm + 1) % 12, d |-> d - dim, t |-> t]

SetMonth(date, m) == MakeDate(date.y, m, date.d, date.t)

SetFullYear(date, y) == MakeDate(y, date.m, date.d, date.t)

\* date1 < date2 on Date objects
DateLT(a, b) ==
    \/ a.y < b.y
    \/ a.y = b.y /\ a.m < b.m
    \/ a.y = b.y /\ a.m = b.m /\ a.d < b.d
    \/ a.y = b.y /\ a.m = b.m /\ a.d = b.d /\ a.t < b.t

\* the civil dates of the modelled years whose day is one of days
DatesOn(days) ==
    { [y |-> y, m |-> m, d |-> d, t |-> t] :
        y \in Years, m \in 0 .. 11, d \in days, t \in Ticks }

ValidDate(date) == date.d <= DaysInMonth(date.y, date.m)

(***************************************************************************)
(* fetchCursorStats: the billing periods.                                  *)
(***************************************************************************)
monthsSinceStart(start, now) ==
    (now.y - start.y) * 12 + (now.m - start.m)

\* currentPeriodStart after the setMonth / setFullYear pair
TentativePeriodStart(start, now) ==
    LET months == monthsSinceStart(start, now)
    IN  SetFullYear(SetMonth(start, start.m + months),
                    start.y + ((start.m + months) \div 12))

CurrentPeriodStartOf(start, now) ==
    LET tentative == TentativePeriodStart(start, now)
    IN  IF DateLT(now, tentative)
        THEN SetMonth(tentative, tentative.m - 1)
        ELSE tentative

PreviousPeriodStartOf(current) == SetMonth(current, current.m - 1)

\* month and year sent to get-monthly-invoice and stored in the snapshot
PeriodMonth(date) == date.m + 1
PeriodYear(date) == date.y

(***************************************************************************)
(* SpecPeriods: the period arithmetic on every pair (subscriptionStart,    *)
(* now) of the bounded calendar.                                           *)
(***************************************************************************)
AnchorDays == {1, 15, 28, 29, 30, 31}
NowDays == {1, 2, 3, 15, 28, 29, 30, 31}

InitPeriods ==
    /\ pc = "periods"
    /\ subscriptionStart \in { s \in DatesOn(AnchorDays) : ValidDate(s) /\ s.y = 2023 }
    /\ currentDate \in { n \in DatesOn(NowDays) : ValidDate(n) }
    /\ currentPeriodStart = Nil
    /\ previousPeriodStart = Nil
    /\ currentInvoice = Nil
    /\ lastInvoice = Nil
    /\ currentMonthData = Nil
    /\ lastMonthData = Nil
    /\ sessionTokens = {}
    /\ NoRun

ComputePeriods ==
    /\ pc = "periods"
    /\ currentPeriodStart' = CurrentPeriodStartOf(subscriptionStart, currentDate)
    /\ previousPeriodStart' = PreviousPeriodStartOf(currentPeriodStart')
    /\ pc' = "periodsDone"
    /\ UNCHANGED <<subscriptionStart, currentDate, monthVars>>
    /\ UNCHANGED <<runVars, userCache, teamVars, stats, costVars>>
    /\ UNCHANGED <<lookupVars, modelVars, errorVars, hostVars>>

NextPeriods == ComputePeriods

SpecPeriods == InitPeriods /\ [][NextPeriods]_vars

\* the calendar month a Date falls in, counted in months
MonthIndex(date) == PeriodYear(date) * 12 + (PeriodMonth(date) - 1)
IndexYear(index) == index \div 12
IndexMonth(index) == index % 12

\* date is the anchor day in the month index, or the last day of that month
\* when the month is shorter than the anchor day
ClampedInto(date, anchor, index) ==
    /\ MonthIndex(date) = index
    /\ date.d = (IF anchor.d <= DaysInMonth(IndexYear(index), IndexMonth(index))
                 THEN anchor.d
                 ELSE DaysInMonth(IndexYear(index), IndexMonth(index)))

\* the month fetchCursorStats asks setMonth for when it sets currentPeriodStart
CurrentTargetIndex ==
    LET tentative == TentativePeriodStart(subscriptionStart, currentDate)
    IN  IF DateLT(currentDate, tentative)
        THEN MonthIndex(tentative) - 1
        ELSE MonthIndex(subscriptionStart) + monthsSinceStart(subscriptionStart, currentDate)

\* the month it asks setMonth for when it sets previousPeriodStart
PreviousTargetIndex == MonthIndex(currentPeriodStart) - 1

AnchorMissingIn(index) ==
    subscriptionStart.d > DaysInMonth(IndexYear(index), IndexMonth(index))

\* C6: when the day of the subscription anchor does not exist in the month a
\* period start is moved to, the period start (current and previous) is the
\* last day of that month and does not fall in the month after it.
C6_PeriodStartsClamped ==
    pc = "periodsDone" =>
        /\ AnchorMissingIn(CurrentTargetIndex) =>
                ClampedInto(currentPeriodStart, subscriptionStart, CurrentTargetIndex)
        /\ AnchorMissingIn(PreviousTargetIndex) =>
                ClampedInto(previousPeriodStart, subscriptionStart, PreviousTargetIndex)

\* C7: the previous period names the calendar month immediately before the
\* month of the current period, so the two invoices fetched are for two
\* consecutive months, never the same month and never a month apart.
C7_PeriodsConsecutive ==
    pc = "periodsDone" =>
        MonthIndex(previousPeriodStart) = MonthIndex(currentPeriodStart) - 1

(***************************************************************************)
(* Invoice lines.  A description is kept as its text together with what    *)
(* the patterns of fetchMonthData find in it:                              *)
(*   lead       the digits /^(\d+)/ finds, or NoLead                       *)
(*   shape      "token"  /^(\d+) token-based usage calls to ([\w.-]+),     *)
(*                        totalling: \$(?:[\d.]+)/ matches                 *)
(*              "phrase" only /^(\d+)\s+(.+?)(?: request| calls)?          *)
(*                        (?: beyond|\*| per|$)/i matches                  *)
(*              "bare"   neither matches                                   *)
(*   tokenModel the group ([\w.-]+) of the token pattern                   *)
(*   midMonth   includes('Mid-month usage paid')                           *)
(*   toolCalls  includes("tool calls")                                     *)
(*   knownModel group 1 of genericModelPattern, or None                    *)
(*   extraFast  None when "extra fast premium request" is not included,    *)
(*              NoQualifier when it is without a "(...)" after it, else    *)
(*              the text in the parentheses                                *)
(*   discounted toLowerCase().includes("discounted")                       *)
(* A line is [hasCents, cents, description]: hasCents is                    *)
(* hasOwnProperty('cents'), description is Nil when the line has none.     *)
(***************************************************************************)
NoLead == 0 - 1
NoQualifier == "no-qualifier"

Desc(text, lead, shape, tokenModel, midMonth, toolCalls, knownModel, extraFast, discounted) ==
    [text |-> text, lead |-> lead, shape |-> shape, tokenModel |-> tokenModel,
     midMonth |-> midMonth, toolCalls |-> toolCalls, knownModel |-> knownModel,
     extraFast |-> extraFast, discounted |-> discounted]

DescToken ==
    Desc("142 token-based usage calls to claude-4-sonnet, totalling: $9.94",
         142, "token", "claude-4-sonnet", FALSE, FALSE, "claude-4-sonnet", None, FALSE)
DescHaiku ==
    Desc("3 extra fast premium requests (haiku)",
         3, "phrase", None, FALSE, FALSE, None, "haiku", FALSE)
DescMidMonth ==
    Desc("Mid-month usage paid for May 2025",
         NoLead, "bare", None, TRUE, FALSE, None, None, FALSE)
DescZero ==
    Desc("0 discounted claude-3.5-sonnet requests",
         0, "phrase", None, FALSE, FALSE, "claude-3.5-sonnet", None, TRUE)
DescGpt4 ==
    Desc("2 gpt-4 requests",
         2, "phrase", None, FALSE, FALSE, "gpt-4", None, FALSE)
DescToolCalls ==
    Desc("12 premium tool calls",
         12, "phrase", None, FALSE, TRUE, None, None, FALSE)
DescUnknown ==
    Desc("5 glorbo-7 requests",
         5, "phrase", None, FALSE, FALSE, None, None, FALSE)
DescBare ==
    Desc("7", 7, "bare", None, FALSE, FALSE, None, None, FALSE)
DescUnknownMini ==
    Desc("4 glorbo-7-mini requests",
         4, "phrase", None, FALSE, FALSE, None, None, FALSE)
DescUnknownUpper ==
    Desc("2 GLORBO-7 requests",
         2, "phrase", None, FALSE, FALSE, None, None, FALSE)
DescUnknownZeta ==
    Desc("6 zeta-1 calls",
         6, "phrase", None, FALSE, FALSE, None, None, FALSE)
DescPremium ==
    Desc("3 premium requests",
         3, "phrase", None, FALSE, FALSE, None, None, FALSE)
DescToolCallsKnown ==
    Desc("5 gpt-4 tool calls",
         5, "phrase", None, FALSE, TRUE, "gpt-4", None, FALSE)
DescExtraFastKnown ==
    Desc("2 extra fast premium requests (fast gpt-4)",
         2, "phrase", None, FALSE, FALSE, "gpt-4", "fast gpt-4", FALSE)
DescMidMonthToken ==
    Desc("3 token-based usage calls to gpt-4, totalling: $1.00 (Mid-month usage paid)",
         3, "token", "gpt-4", TRUE, FALSE, "gpt-4", None, FALSE)
DescTokenToolCalls ==
    Desc("9 token-based usage calls to glorbo-7, totalling: $0.50 for tool calls",
         9, "token", "glorbo-7", FALSE, TRUE, None, None, FALSE)
DescZeroBare ==
    Desc("0", 0, "bare", None, FALSE, FALSE, None, None, FALSE)
DescText ==
    Desc("Adjustment", NoLead, "bare", None, FALSE, FALSE, None, None, FALSE)

Line(cents, description) == [hasCents |-> TRUE, cents |-> cents, description |-> description]
LineNoCents(description) == [hasCents |-> FALSE, cents |-> 0, description |-> description]

\* the lines the invoices of the model are made of
Lines ==
    { Line(994, DescToken),
      Line(150, DescHaiku),
      Line(-500, DescMidMonth),
      Line(300, DescMidMonth),
      LineNoCents(DescMidMonth),
      Line(120, DescZero),
      Line(-40, DescGpt4),
      LineNoCents(DescGpt4),
      Line(60, DescToolCalls),
      Line(45, DescToolCallsKnown),
      Line(65, DescExtraFastKnown),
      Line(-100, DescMidMonthToken),
      Line(50, DescTokenToolCalls),
      Line(250, DescUnknown),
      Line(70, DescBare),
      Line(35, DescZeroBare),
      Line(55, DescText),
      Line(10, Nil),
      LineNoCents(Nil) }

\* most lines of one invoice
MaxItems == 2

SeqsUpTo(S, n) == UNION { [1 .. k -> S] : k \in 0 .. n }

(***************************************************************************)
(* Amounts as fetchMonthData writes them and updateStats reads them back.  *)
(***************************************************************************)
\* Abs keeping the sign
AbsSigned(x) == x

Abs(x) == IF x < 0 THEN -x ELSE x

\* (c / 100).toFixed(2) for an amount of c cents
ToFixed2(c) == [neg |-> c < 0, whole |-> Abs(c) \div 100, frac |-> Abs(c) % 100]

\* `$${totalDollars.toFixed(2)}`
UsageTotalDollars(cents) == [minus |-> FALSE, num |-> ToFixed2(cents)]

\* `-$${midMonthPayment.toFixed(2)}`
MidMonthTotalDollars(payment) == [minus |-> TRUE, num |-> ToFixed2(payment)]

\* parseFloat(item.totalDollars.replace('$', '')): the number in cents, or
\* NaN for a text with two minus signs
ParseCost(totalDollars) ==
    LET magnitude == totalDollars.num.whole * 100 + totalDollars.num.frac
    IN  IF totalDollars.minus /\ totalDollars.num.neg
        THEN [isNaN |-> TRUE, cents |-> 0]
        ELSE IF totalDollars.minus \/ totalDollars.num.neg
        THEN [isNaN |-> FALSE, cents |-> -magnitude]
        ELSE [isNaN |-> FALSE, cents |-> magnitude]

(***************************************************************************)
(* fetchMonthData                                                          *)
(***************************************************************************)
UnknownModel == "unknown-model"
ToolCallsName == "api.toolCalls"
FastPremiumName == "api.fastPremium"

\* ExtraFastModelName ignoring the text in the parentheses
ExtraFastModelNameGeneric(d) == FastPremiumName

\* parsedModelName of a line with "extra fast premium request": the text in
\* the parentheses, or t('api.fastPremium')
ExtraFastModelName(d) ==
    IF d.extraFast # NoQualifier THEN d.extraFast ELSE FastPremiumName

\* SkipsZeroRequests without the zero-request check
SkipsZeroRequestsNever(requestCount) == FALSE

\* if (requestCount === 0) continue
SkipsZeroRequests(requestCount) == requestCount = 0

\* ClassifyItem looking for a known model name before the tool-call marker
ClassifyItemModelFirst(item) ==
    LET d == item.description
        skip == [kind |-> "skip", requestCount |-> 0, parsedModelName |-> None]
        usage(n, name) ==
            IF SkipsZeroRequests(n) THEN skip
            ELSE [kind |-> "usage", requestCount |-> n, parsedModelName |-> name]
    IN  IF ~item.hasCents THEN skip
        ELSE IF d.midMonth
        THEN [kind |-> "payment", requestCount |-> 0, parsedModelName |-> None]
        ELSE IF d.shape = "token" THEN usage(d.lead, d.tokenModel)
        ELSE IF d.shape = "phrase"
        THEN IF d.knownModel # None THEN usage(d.lead, d.knownModel)
             ELSE IF d.toolCalls THEN usage(d.lead, ToolCallsName)
             ELSE IF d.extraFast # None
             THEN usage(d.lead, ExtraFastModelName(d))
             ELSE usage(d.lead, UnknownModel)
        ELSE IF d.lead # NoLead THEN usage(d.lead, UnknownModel)
        ELSE skip

\* the loop body of lines 792-901 up to the push: what becomes of one item
\*   kind "skip"    : continue without a push
\*   kind "payment" : the mid-month branch
\*   kind "usage"   : a usage item with requestCount and parsedModelName
ClassifyItem(item) ==
    LET d == item.description
        skip == [kind |-> "skip", requestCount |-> 0, parsedModelName |-> None]
        usage(n, name) ==
            IF SkipsZeroRequests(n) THEN skip
            ELSE [kind |-> "usage", requestCount |-> n, parsedModelName |-> name]
    IN  IF ~item.hasCents THEN skip
        ELSE IF d.midMonth
        THEN [kind |-> "payment", requestCount |-> 0, parsedModelName |-> None]
        ELSE IF d.shape = "token" THEN usage(d.lead, d.tokenModel)
        ELSE IF d.shape = "phrase"
        THEN IF d.toolCalls THEN usage(d.lead, ToolCallsName)
             ELSE IF d.knownModel # None THEN usage(d.lead, d.knownModel)
             ELSE IF d.extraFast # None
             THEN usage(d.lead, ExtraFastModelName(d))
             ELSE usage(d.lead, UnknownModel)
        ELSE IF d.lead # NoLead THEN usage(d.lead, UnknownModel)
        ELSE skip

\* UsageItem with the cost of one request as totalDollars
UsageItemPerRequest(item, class) ==
    [calculation |-> [requestCount |-> class.requestCount,
                      totalling |-> item.description.shape = "token"],
     totalDollars |-> UsageTotalDollars(item.cents \div class.requestCount),
     description |-> item.description,
     modelNameForTooltip |-> class.parsedModelName,
     isDiscounted |-> item.description.discounted]

\* the object pushed for a usage item (lines 894-900); calculation keeps the
\* request count and the "~" of a totalling item, not the padding
UsageItem(item, class) ==
    [calculation |-> [requestCount |-> class.requestCount,
                      totalling |-> item.description.shape = "token"],
     totalDollars |-> UsageTotalDollars(item.cents),
     description |-> item.description,
     modelNameForTooltip |-> class.parsedModelName,
     isDiscounted |-> item.description.discounted]

\* the object pushed for a mid-month payment (lines 810-814)
MidMonthItem(item, midMonthPayment) ==
    [calculation |-> [label |-> "api.midMonthPayment", amount |-> ToFixed2(midMonthPayment)],
     totalDollars |-> MidMonthTotalDollars(midMonthPayment),
     description |-> item.description]

RECURSIVE ParseItems(_, _, _)
\* the third loop over response.data.items
ParseItems(items, usageItems, midMonthPayment) ==
    IF items = <<>>
    THEN [items |-> usageItems, midMonthPayment |-> midMonthPayment]
    ELSE LET item == Head(items)
             class == ClassifyItem(item)
         IN  IF class.kind = "payment"
             THEN LET paid == midMonthPayment + Abs(item.cents)
                  IN  ParseItems(Tail(items),
                                 Append(usageItems, MidMonthItem(item, paid)), paid)
             ELSE IF class.kind = "usage"
             THEN ParseItems(Tail(items),
                             Append(usageItems, UsageItem(item, class)), midMonthPayment)
             ELSE ParseItems(Tail(items), usageItems, midMonthPayment)

\* item.description.includes(...) on a line with cents and no description
DescriptionThrows(items) ==
    \E i \in 1 .. Len(items) :
        items[i].hasCents /\ items[i].description = Nil

Failed == [failed |-> TRUE]
Threw == [threw |-> TRUE]

\* EmptyMonthData with the unpaid flag set
EmptyMonthDataUnpaid == [items |-> <<>>, hasUnpaidMidMonthInvoice |-> TRUE, midMonthPayment |-> 0]

\* the data fetchCursorStats uses for a month whose fetch failed
EmptyMonthData == [items |-> <<>>, hasUnpaidMidMonthInvoice |-> FALSE, midMonthPayment |-> 0]

\* fetchMonthData on the answer of get-monthly-invoice: Threw, or the data
FetchMonthData(response) ==
    IF response = Failed THEN Threw
    ELSE IF ~response.hasItems
    THEN [items |-> <<>>,
          hasUnpaidMidMonthInvoice |-> response.hasUnpaidMidMonthInvoice,
          midMonthPayment |-> 0]
    ELSE IF DescriptionThrows(response.items) THEN Threw
    ELSE LET parsed == ParseItems(response.items, <<>>, 0)
         IN  [items |-> parsed.items,
              hasUnpaidMidMonthInvoice |-> response.hasUnpaidMidMonthInvoice,
              midMonthPayment |-> parsed.midMonthPayment]

\* the answer body: hasItems is the truthiness of response.data.items
InvoiceResponse(items, hasUnpaid) ==
    [hasItems |-> TRUE, items |-> items, hasUnpaidMidMonthInvoice |-> hasUnpaid]
InvoiceWithoutItems(hasUnpaid) ==
    [hasItems |-> FALSE, items |-> <<>>, hasUnpaidMidMonthInvoice |-> hasUnpaid]


(***************************************************************************)
(* services/team.ts                                                        *)
(***************************************************************************)
\* a session token "<user>%3A%3A<jwt>": jwtSub is decoded.payload.sub, None
\* (undefined) when the second part cannot be decoded or its payload has no
\* sub; JSON.stringify leaves an undefined jwtSub out of the cache file and
\* the record read back has jwtSub undefined again
Token(userId, jwtSub) == [userId |-> userId, jwtSub |-> jwtSub]

\* const jwtSub = decoded?.payload?.sub
JwtSubOf(tok) == tok.jwtSub

\* user-cache.json that cannot be read, and one whose text is no JSON
Unreadable == [unreadable |-> TRUE]
Corrupt == [corrupt |-> TRUE]

\* LoadUserCache letting the read and parse errors through
LoadUserCacheStrict(file) ==
    IF file = Unreadable \/ file = Corrupt THEN Threw ELSE file

\* loadUserCache on the file (Nil when there is none): the cache, or Nil for
\* null; errors of readFileSync and JSON.parse are caught
LoadUserCache(file) ==
    IF file = Unreadable \/ file = Corrupt THEN Nil ELSE file

\* CacheHit that never answers from the cache
CacheHitNever(cache, jwtSub) == FALSE

\* the cache hit test of checkTeamMembership; cache is what loadUserCache
\* returned (Nil for null)
CacheHit(cache, jwtSub) ==
    /\ cache # Nil
    /\ cache.jwtSub = jwtSub
    /\ cache.startOfMonth # Nil

\* the object returned on a cache hit
TeamInfoFromCache(cache) ==
    [isTeamMember |-> cache.isTeamMember,
     teamId |-> cache.teamId,
     userId |-> cache.userId,
     startOfMonth |-> cache.startOfMonth]

\* the answers of /api/dashboard/teams and /api/dashboard/team
\*   teams  : the sequence of team ids of response.data.teams
\*   detail : teamResponse.data.userId, Undefined when the body has none
IsTeamMemberOf(teams) == Len(teams) > 0
TeamIdOf(teams) == IF IsTeamMemberOf(teams) THEN teams[1] ELSE Undefined

\* cacheData as JSON.stringify writes it and JSON.parse reads it back:
\* userId is teamUserId || 0
CacheData(jwtSub, isTeamMember, teamId, teamUserId, startOfMonth) ==
    [userId |-> IF Truthy(teamUserId) THEN teamUserId ELSE 0,
     jwtSub |-> jwtSub,
     isTeamMember |-> isTeamMember,
     teamId |-> teamId,
     startOfMonth |-> startOfMonth]

\* WriteUserCache keeping the fields of the old record the new one lacks
WriteUserCacheMerging(file, cache) ==
    IF file \in {Nil, Unreadable, Corrupt} THEN cache
    ELSE [cache EXCEPT !.teamId = IF cache.teamId = Undefined THEN file.teamId ELSE cache.teamId,
                       !.userId = IF cache.userId = 0 THEN file.userId ELSE cache.userId]

\* fs.writeFileSync(cachePath, JSON.stringify(cache, null, 2)) of saveUserCache:
\* the content of the file after the write
WriteUserCache(file, cache) == cache

\* the object returned after a fresh lookup
FreshTeamInfo(isTeamMember, teamId, teamUserId, startOfMonth) ==
    [isTeamMember |-> isTeamMember,
     teamId |-> teamId,
     userId |-> teamUserId,
     startOfMonth |-> startOfMonth]

\* one entry of teamSpend.teamMemberSpend
Member(userId, spendCents, fastPremiumRequests) ==
    [userId |-> userId, spendCents |-> spendCents,
     fastPremiumRequests |-> fastPremiumRequests]

\* teamSpend.teamMemberSpend.find(member => member.userId === userId):
\* the index of the first entry, 0 when there is none
FindMember(teamMemberSpend, userId) ==
    IF \E i \in 1 .. Len(teamMemberSpend) : teamMemberSpend[i].userId = userId
    THEN CHOOSE i \in 1 .. Len(teamMemberSpend) :
            /\ teamMemberSpend[i].userId = userId
            /\ \A k \in 1 .. i - 1 : teamMemberSpend[k].userId # userId
    ELSE 0

\* extractUserSpend: Threw when the user has no entry, else the object it
\* returns (name, email, role and hardLimitOverrideDollars are copied too and
\* not read by the callers)
extractUserSpend(teamSpendData, userId) ==
    LET i == FindMember(teamSpendData.teamMemberSpend, userId)
        userSpend == teamSpendData.teamMemberSpend[i]
    IN  IF i = 0 THEN Threw
        ELSE [userId |-> userSpend.userId,
              fastPremiumRequests |->
                  IF Truthy(userSpend.fastPremiumRequests)
                  THEN userSpend.fastPremiumRequests ELSE 0]

\* userSpend.spendCents || 0
SpendCentsOf(userSpend) ==
    IF "spendCents" \in DOMAIN userSpend /\ Truthy(userSpend.spendCents)
    THEN userSpend.spendCents
    ELSE 0

(***************************************************************************)
(* SpecMonth: fetchMonthData on every invoice of at most MaxItems lines.   *)
(***************************************************************************)
MonthResponses ==
    { InvoiceResponse(items, unpaid) :
        items \in SeqsUpTo(Lines, MaxItems), unpaid \in BOOLEAN }
    \cup { InvoiceWithoutItems(unpaid) : unpaid \in BOOLEAN }
    \cup {Failed}

InitMonth ==
    /\ pc = "month"
    /\ currentInvoice \in MonthResponses
    /\ currentMonthData = Nil
    /\ lastInvoice = Nil
    /\ lastMonthData = Nil
    /\ subscriptionStart = Nil
    /\ currentDate = Nil
    /\ currentPeriodStart = Nil
    /\ previousPeriodStart = Nil
    /\ sessionTokens = {}
    /\ NoRun

RunFetchMonthData ==
    /\ pc = "month"
    /\ currentMonthData' = FetchMonthData(currentInvoice)
    /\ pc' = "monthDone"
    /\ UNCHANGED <<periodVars, currentInvoice, lastInvoice, lastMonthData>>
    /\ UNCHANGED <<runVars, userCache, teamVars, stats, costVars>>
    /\ UNCHANGED <<lookupVars, modelVars, errorVars, hostVars>>

NextMonth == RunFetchMonthData

SpecMonth == InitMonth /\ [][NextMonth]_vars

\* a line with cents that is no mid-month payment and starts with the number 0
ZeroCountLine(item) ==
    /\ item.hasCents
    /\ item.description # Nil
    /\ ~item.description.midMonth
    /\ item.description.lead = 0

NotZeroCountLine(item) == ~ZeroCountLine(item)

WithoutZeroCountLines(response) ==
    [response EXCEPT !.items = SelectSeq(response.items, NotZeroCountLine)]

IsUsageItem(item) == "requestCount" \in DOMAIN item.calculation

\* C10: a line whose parsed request count is 0 is dropped: the period is the
\* one the invoice without these lines gives, no item of the list comes from
\* such a line, and every usage item of the list has a request count > 0.
C10_ZeroRequestLinesDropped ==
    (pc = "monthDone" /\ currentInvoice # Failed /\ currentMonthData # Threw) =>
        /\ currentMonthData = FetchMonthData(WithoutZeroCountLines(currentInvoice))
        /\ \A i \in 1 .. Len(currentMonthData.items) :
              LET item == currentMonthData.items[i]
              IN  /\ IsUsageItem(item) => item.calculation.requestCount > 0
                  /\ \A k \in 1 .. Len(currentInvoice.items) :
                        ZeroCountLine(currentInvoice.items[k]) =>
                            item.description # currentInvoice.items[k].description

\* a zero-count line with a cost next to a usage line: only the usage line is listed
C10_Witness ==
    /\ pc = "monthDone"
    /\ currentInvoice # Failed
    /\ currentInvoice.hasItems
    /\ Len(currentInvoice.items) = 2
    /\ ZeroCountLine(currentInvoice.items[1])
    /\ currentInvoice.items[1].cents > 0
    /\ currentMonthData # Threw
    /\ Len(currentMonthData.items) = 1
    /\ IsUsageItem(currentMonthData.items[1])

(***************************************************************************)
(* Spec: runs of updateStats, each with the fetchCursorStats it awaits.    *)
(* Every answer of the backend is chosen among a few bodies or a failure.  *)
(***************************************************************************)
DefaultPremiumLimit == 500

Tokens == { Token("user_A", "sub_A"), Token("user_B", "sub_B") }

StartsOfMonth ==
    { [y |-> 2023, m |-> 0, d |-> 31, t |-> 1],
      [y |-> 2023, m |-> 2, d |-> 15, t |-> 0] }

Nows == { [y |-> 2023, m |-> 2, d |-> 15, t |-> 1] }

\* a body of /api/usage: the 'gpt-4' entry and startOfMonth
UsageData(numRequests, maxRequestUsage, startOfMonth) ==
    [gpt4 |-> [numRequests |-> numRequests, maxRequestUsage |-> maxRequestUsage],
     startOfMonth |-> startOfMonth]

UsageAnswers ==
    { UsageData(12, 500, [y |-> 2023, m |-> 0, d |-> 31, t |-> 1]),
      UsageData(40, Undefined, [y |-> 2023, m |-> 2, d |-> 15, t |-> 0]) }

TeamsAnswers == { <<>>, <<9>> }
TeamUserIds == { 7, Undefined }

TeamSpendData(teamMemberSpend) == [teamMemberSpend |-> teamMemberSpend]

TeamSpendAnswers ==
    { TeamSpendData(<<>>),
      TeamSpendData(<<Member(7, 1250, 3)>>),
      TeamSpendData(<<Member(8, 300, 5), Member(7, Undefined, 11)>>) }

InvoiceAnswers ==
    { InvoiceResponse(<<Line(-40, DescGpt4), Line(994, DescToken)>>, FALSE),
      InvoiceResponse(<<Line(150, DescHaiku), Line(-500, DescMidMonth)>>, TRUE),
      InvoiceResponse(<<Line(250, DescUnknown), Line(120, DescZero)>>, FALSE) }

ErrorStatuses == { 401, 403 }

\* a session in which getCursorTokenFromDB finds one token or none; the
\* tokens of several subjects are SpecCache's
Init ==
    /\ pc = "idle"
    /\ subscriptionStart = Nil
    /\ currentDate = Nil
    /\ currentPeriodStart = Nil
    /\ previousPeriodStart = Nil
    /\ currentInvoice = Nil
    /\ lastInvoice = Nil
    /\ currentMonthData = Nil
    /\ lastMonthData = Nil
    /\ sessionTokens = { Token("user_A", "sub_A") }
    /\ NoRun

\* the variables of a fetchCursorStats call as it starts
ResetFetch ==
    /\ subscriptionStart' = Nil
    /\ currentDate' = Nil
    /\ currentPeriodStart' = Nil
    /\ previousPeriodStart' = Nil
    /\ currentInvoice' = Nil
    /\ lastInvoice' = Nil
    /\ currentMonthData' = Nil
    /\ lastMonthData' = Nil
    /\ teamInfo' = Nil
    /\ teamSpend' = Nil
    /\ individualUsage' = Nil
    /\ usageResponse' = Nil
    /\ teamSpendCents' = Undefined
    /\ isUsingTeamSpend' = FALSE
    /\ premiumRequests' = Nil
    /\ stats' = Nil
    /\ activeMonthData' = None
    /\ actualTotalCost' = 0
    /\ useTeamSpendData' = FALSE
    /\ unpaidAmount' = Nil
    /\ lookupRequests' = 0
    /\ notified' = FALSE

\* the error count and the cooldown, as cooldown.ts holds them
ErrorState(count, cooldown) == [count |-> count, cooldown |-> cooldown]

\* updateStats up to its call of fetchCursorStats(token); without a token it
\* shows the no-token message and returns, or an awaited helper of lines
\* 28-37 throws into the outer catch
StartUpdate ==
    /\ pc = "idle"
    /\ consecutiveErrorCount < MaxErrors
    /\ errorStateAtStart' = ErrorState(consecutiveErrorCount, cooldownStartTime)
    /\ \E tok \in sessionTokens \cup {Nil} :
        IF tok = Nil
        THEN /\ token' = Nil
             /\ fetchToken' = Nil
             /\ attempt' = 0
             /\ error' = Undefined
             /\ ResetFetch
             /\ pc' \in {"idle", "caught"}
             /\ UNCHANGED <<userCache, lookedUp, detectedUnknownModels,
                            unknownModelNotificationShown>>
             /\ UNCHANGED <<errorVars, sessionTokens, runs>>
        ELSE /\ token' = tok
             /\ fetchToken' = tok
             /\ attempt' = 1
             /\ error' = Undefined
             /\ ResetFetch
             /\ pc' = "membership"
             /\ UNCHANGED <<userCache, lookedUp, detectedUnknownModels,
                            unknownModelNotificationShown>>
             /\ UNCHANGED <<errorVars, sessionTokens, runs>>

\* an error leaves fetchCursorStats through its catch block, which rethrows
Raise(status) ==
    /\ pc' = "raised"
    /\ error' = status

\* where fetchCursorStats goes after checkTeamMembership returned info
AfterMembership(info) ==
    IF info.isTeamMember /\ Truthy(info.teamId) /\ Truthy(info.userId)
    THEN "teamSpend"
    ELSE "usage"

\* checkTeamMembership(token, context)
CheckTeamMembership ==
    /\ pc = "membership"
    /\ LET jwtSub == JwtSubOf(fetchToken)
           cache == LoadUserCache(userCache)
       IN  IF cache = Threw
           THEN /\ Raise(Undefined)
                /\ UNCHANGED <<userCache, teamInfo, lookupVars>>
           ELSE IF CacheHit(cache, jwtSub)
           THEN /\ teamInfo' = TeamInfoFromCache(cache)
                /\ pc' = AfterMembership(teamInfo')
                /\ UNCHANGED <<userCache, error, lookupVars>>
           ELSE /\ lookedUp' = lookedUp \cup {jwtSub}
                /\ \/ \* /api/usage, /api/dashboard/teams or /api/dashboard/team fails
                      /\ \E status \in ErrorStatuses : Raise(status)
                      /\ \E sent \in 1 .. 3 : lookupRequests' = sent
                      /\ UNCHANGED <<userCache, teamInfo>>
                   \/ \E startOfMonth \in StartsOfMonth, teams \in TeamsAnswers,
                         teamUserId \in TeamUserIds, saved \in BOOLEAN :
                         LET isTeamMember == IsTeamMemberOf(teams)
                             teamId == TeamIdOf(teams)
                             userId == IF isTeamMember /\ Truthy(teamId)
                                       THEN teamUserId ELSE Undefined
                         IN  /\ (~(isTeamMember /\ Truthy(teamId))) => teamUserId = Undefined
                             /\ lookupRequests' = IF isTeamMember /\ Truthy(teamId) THEN 3 ELSE 2
                             /\ userCache' =
                                   IF saved
                                   THEN WriteUserCache(userCache,
                                            CacheData(jwtSub, isTeamMember, teamId, userId,
                                                      startOfMonth))
                                   ELSE userCache
                             /\ teamInfo' = FreshTeamInfo(isTeamMember, teamId, userId, startOfMonth)
                             /\ pc' = AfterMembership(teamInfo')
                             /\ UNCHANGED error
    /\ UNCHANGED <<periodVars, monthVars, token, fetchToken, attempt, stats, costVars>>
    /\ UNCHANGED <<teamSpend, individualUsage, usageResponse, teamSpendCents,
                   isUsingTeamSpend, premiumRequests>>
    /\ UNCHANGED <<modelVars, errorVars, hostVars>>

\* the team branch: getTeamSpend and extractUserSpend; a failure of either is
\* caught and falls through to the individual usage API
GetTeamSpend ==
    /\ pc = "teamSpend"
    /\ \E answer \in TeamSpendAnswers \cup {Failed} :
        /\ teamSpend' = answer
        /\ IF answer = Failed \/ extractUserSpend(answer, teamInfo.userId) = Threw
           THEN /\ pc' = "usage"
                /\ UNCHANGED teamSpendCents
           ELSE /\ teamSpendCents' = SpendCentsOf(extractUserSpend(answer, teamInfo.userId))
                /\ pc' = "teamUsage"
    /\ UNCHANGED <<periodVars, monthVars, runVars, userCache, stats, costVars>>
    /\ UNCHANGED <<teamInfo, individualUsage, usageResponse, isUsingTeamSpend, premiumRequests>>
    /\ UNCHANGED <<lookupVars, modelVars, errorVars, hostVars>>

\* premiumRequests of the team branch
TeamPremiumRequests(usageData, info) ==
    [current |-> usageData.gpt4.numRequests,
     limit |-> IF Truthy(usageData.gpt4.maxRequestUsage)
               THEN usageData.gpt4.maxRequestUsage
               ELSE DefaultPremiumLimit,
     startOfMonth |-> info.startOfMonth]

\* IndividualPremiumRequests with the limit defaulting as in the team branch
IndividualPremiumRequestsDefaulted(usageData) ==
    [current |-> usageData.gpt4.numRequests,
     limit |-> IF Truthy(usageData.gpt4.maxRequestUsage)
               THEN usageData.gpt4.maxRequestUsage
               ELSE DefaultPremiumLimit,
     startOfMonth |-> usageData.startOfMonth]

\* premiumRequests of the fallback branch
IndividualPremiumRequests(usageData) ==
    [current |-> usageData.gpt4.numRequests,
     limit |-> usageData.gpt4.maxRequestUsage,
     startOfMonth |-> usageData.startOfMonth]

\* the team branch: the individual usage fetch inside the same try block
TeamIndividualUsage ==
    /\ pc = "teamUsage"
    /\ \E answer \in UsageAnswers \cup {Failed} :
        /\ individualUsage' = answer
        /\ IF answer = Failed
           THEN /\ pc' = "usage"
                /\ UNCHANGED <<premiumRequests, isUsingTeamSpend>>
           ELSE /\ premiumRequests' = TeamPremiumRequests(answer, teamInfo)
                /\ isUsingTeamSpend' = TRUE
                /\ pc' = "periods"
    /\ UNCHANGED <<periodVars, monthVars, runVars, userCache, stats, costVars>>
    /\ UNCHANGED <<teamInfo, teamSpend, usageResponse, teamSpendCents>>
    /\ UNCHANGED <<lookupVars, modelVars, errorVars, hostVars>>

\* IndividualUsage with the failure caught and the fetch tried again
IndividualUsageCaught ==
    /\ pc = "usage"
    /\ \E answer \in UsageAnswers \cup {Failed} :
        /\ usageResponse' = answer
        /\ IF answer = Failed
           THEN /\ pc' = "usage"
                /\ UNCHANGED <<premiumRequests, error>>
           ELSE /\ premiumRequests' = IndividualPremiumRequests(answer)
                /\ pc' = "periods"
                /\ UNCHANGED error
    /\ UNCHANGED <<periodVars, monthVars, token, fetchToken, attempt, userCache, stats, costVars>>
    /\ UNCHANGED <<teamInfo, teamSpend, individualUsage, teamSpendCents, isUsingTeamSpend>>
    /\ UNCHANGED <<lookupVars, modelVars, errorVars, hostVars>>

\* if (!premiumRequests): the individual usage API; its failure is not caught
IndividualUsage ==
    /\ pc = "usage"
    /\ \E answer \in UsageAnswers \cup {Failed} :
        /\ usageResponse' = answer
        /\ IF answer = Failed
           THEN /\ \E status \in ErrorStatuses : Raise(status)
                /\ UNCHANGED premiumRequests
           ELSE /\ premiumRequests' = IndividualPremiumRequests(answer)
                /\ pc' = "periods"
                /\ UNCHANGED error
    /\ UNCHANGED <<periodVars, monthVars, token, fetchToken, attempt, userCache, stats, costVars>>
    /\ UNCHANGED <<teamInfo, teamSpend, individualUsage, teamSpendCents, isUsingTeamSpend>>
    /\ UNCHANGED <<lookupVars, modelVars, errorVars, hostVars>>

\* the two billing periods
BillingPeriods ==
    /\ pc = "periods"
    /\ \E now \in Nows :
        /\ currentDate' = now
        /\ subscriptionStart' = premiumRequests.startOfMonth
        /\ currentPeriodStart' = CurrentPeriodStartOf(subscriptionStart', now)
        /\ previousPeriodStart' = PreviousPeriodStartOf(currentPeriodStart')
    /\ pc' = "fetchCurrent"
    /\ UNCHANGED <<monthVars, runVars, userCache, teamVars, stats, costVars>>
    /\ UNCHANGED <<lookupVars, modelVars, errorVars, hostVars>>

\* fetchMonthData with the catch that replaces a failure by empty data
MonthDataOrEmpty(answer) ==
    IF FetchMonthData(answer) = Threw THEN EmptyMonthData ELSE FetchMonthData(answer)

FetchCurrentMonth ==
    /\ pc = "fetchCurrent"
    /\ \E answer \in InvoiceAnswers \cup {Failed} :
        /\ currentInvoice' = answer
        /\ currentMonthData' = MonthDataOrEmpty(answer)
    /\ pc' = "fetchLast"
    /\ UNCHANGED <<periodVars, lastInvoice, lastMonthData>>
    /\ UNCHANGED <<runVars, userCache, teamVars, stats, costVars>>
    /\ UNCHANGED <<lookupVars, modelVars, errorVars, hostVars>>

\* the object fetchCursorStats returns
CursorStats(current, previous, currentData, lastData, premium, usingTeamSpend, info, spendCents) ==
    [currentMonth |-> [month |-> PeriodMonth(current), year |-> PeriodYear(current),
                       usageBasedPricing |-> currentData],
     lastMonth |-> [month |-> PeriodMonth(previous), year |-> PeriodYear(previous),
                    usageBasedPricing |-> lastData],
     premiumRequests |-> premium,
     isTeamSpendData |-> usingTeamSpend,
     teamId |-> info.teamId,
     teamSpendCents |->
        IF usingTeamSpend /\ info.isTeamMember /\ Truthy(info.teamId) /\ Truthy(info.userId)
        THEN spendCents
        ELSE Undefined]

\* the second fetchMonthData and the return of fetchCursorStats
FetchLastMonth ==
    /\ pc = "fetchLast"
    /\ \E answer \in InvoiceAnswers \cup {Failed} :
        /\ lastInvoice' = answer
        /\ lastMonthData' = MonthDataOrEmpty(answer)
    /\ stats' = CursorStats(currentPeriodStart, previousPeriodStart, currentMonthData,
                            lastMonthData', premiumRequests, isUsingTeamSpend, teamInfo,
                            teamSpendCents)
    /\ pc' = "fetched"
    /\ UNCHANGED <<periodVars, currentInvoice, currentMonthData>>
    /\ UNCHANGED <<runVars, userCache, teamVars, costVars>>
    /\ UNCHANGED <<lookupVars, modelVars, errorVars, hostVars>>

\* lines 47-61, the catch handler of updateStats on fetchCursorStats(token): a
\* 401 of the first call is retried once with a newly read token, every other
\* error is thrown again
CatchFetchError ==
    /\ pc = "raised"
    /\ \/ /\ attempt = 1
          /\ error = 401
          /\ \E newToken \in sessionTokens :
                /\ fetchToken' = newToken
                /\ attempt' = 2
                /\ ResetFetch
                /\ pc' = "membership"
                /\ UNCHANGED <<token, error, userCache, lookedUp, detectedUnknownModels,
                               unknownModelNotificationShown>>
                /\ UNCHANGED <<errorVars, hostVars>>
       \/ \* no 401, no new token, or the retry failed: to the outer catch
          /\ pc' = "caught"
          /\ UNCHANGED <<periodVars, monthVars, runVars, userCache, teamVars, stats, costVars>>
          /\ UNCHANGED <<lookupVars, modelVars, errorVars, hostVars>>

\* incrementConsecutiveErrorCount() of cooldown.ts
IncrementConsecutiveErrorCount(count) == count + 1

\* lines 598-602, the outer catch of updateStats, which ends the run: its
\* local variables are gone
OuterCatch ==
    /\ pc = "caught"
    /\ consecutiveErrorCount' = IncrementConsecutiveErrorCount(consecutiveErrorCount)
    /\ token' = Nil
    /\ fetchToken' = Nil
    /\ attempt' = 0
    /\ error' = Undefined
    /\ ResetFetch
    /\ pc' = "idle"
    /\ UNCHANGED <<userCache, lookedUp, detectedUnknownModels,
                   unknownModelNotificationShown>>
    /\ UNCHANGED <<cooldownStartTime, hostVars>>

(***************************************************************************)
(* updateStats after fetchCursorStats returned.                            *)
(***************************************************************************)
\* ActiveMonthOf looking at the items of the current month only
ActiveMonthOfItemsOnly(st) ==
    IF Len(st.currentMonth.usageBasedPricing.items) > 0
    THEN "current"
    ELSE "last"

\* which month updateStats reads: stats.currentMonth or stats.lastMonth
ActiveMonthOf(st) ==
    IF \/ Len(st.currentMonth.usageBasedPricing.items) > 0
       \/ (st.isTeamSpendData /\ st.teamSpendCents # Undefined)
    THEN "current"
    ELSE "last"

ActiveMonthData(st, active) ==
    IF active = "current" THEN st.currentMonth ELSE st.lastMonth

\* CostCounts adding every cost
CostCountsAlways(cost) == ~cost.isNaN

\* the condition of `cost > 0 ? sum + cost : sum`
CostCounts(cost) == ~cost.isNaN /\ cost.cents > 0

RECURSIVE SumPositiveCosts(_)
\* items.reduce over the costs read back from totalDollars
SumPositiveCosts(items) ==
    IF items = <<>> THEN 0
    ELSE LET cost == ParseCost(Head(items).totalDollars)
         IN  (IF CostCounts(cost) THEN cost.cents ELSE 0) + SumPositiveCosts(Tail(items))

\* stats.isTeamSpendData && stats.teamSpendCents !== undefined
UsesTeamSpend(st) == st.isTeamSpendData /\ st.teamSpendCents # Undefined

\* ActualTotalCost using the invoice total for team members too
ActualTotalCostFromInvoice(st, active) ==
    IF Len(ActiveMonthData(st, active).usageBasedPricing.items) > 0
    THEN SumPositiveCosts(ActiveMonthData(st, active).usageBasedPricing.items)
    ELSE 0

\* actualTotalCost, in cents (teamSpendCents / 100 dollars is teamSpendCents cents)
ActualTotalCost(st, active) ==
    IF UsesTeamSpend(st) THEN st.teamSpendCents
    ELSE IF Len(ActiveMonthData(st, active).usageBasedPricing.items) > 0
    THEN SumPositiveCosts(ActiveMonthData(st, active).usageBasedPricing.items)
    ELSE 0

Max(a, b) == IF a >= b THEN a ELSE b

\* UnpaidAmount without the cut-off at 0
UnpaidAmountSigned(teamData, cost, midMonthPayment) ==
    IF teamData THEN 0 ELSE cost - midMonthPayment

\* const unpaidAmount = useTeamSpendData ? 0 : Math.max(0, actualTotalCost - midMonthPayment)
UnpaidAmount(teamData, cost, midMonthPayment) ==
    IF teamData THEN 0 ELSE Max(0, cost - midMonthPayment)

(***************************************************************************)
(* updateStats: the unknown models.  A term is the sequence of its          *)
(* characters.                                                              *)
(***************************************************************************)
Glorbo7 == <<"g", "l", "o", "r", "b", "o", "-", "7">>
Glorbo7Mini == <<"g", "l", "o", "r", "b", "o", "-", "7", "-", "m", "i", "n", "i">>
Glorbo7Upper == <<"G", "L", "O", "R", "B", "O", "-", "7">>
Zeta1 == <<"z", "e", "t", "a", "-", "1">>
Premium == <<"p", "r", "e", "m", "i", "u", "m">>

\* extractedTermForNotification after the patterns and the cleanup of lines
\* 380-413, on the text of the description; the empty term when no pattern
\* finds one
ExtractedTerm(description) ==
    IF description.text = "5 glorbo-7 requests" THEN Glorbo7
    ELSE IF description.text = "4 glorbo-7-mini requests" THEN Glorbo7Mini
    ELSE IF description.text = "2 GLORBO-7 requests" THEN Glorbo7Upper
    ELSE IF description.text = "6 zeta-1 calls" THEN Zeta1
    ELSE IF description.text = "3 premium requests" THEN Premium
    ELSE <<>>

\* toLowerCase on the characters the terms are written with
LowerChar(c) ==
    IF c = "G" THEN "g"
    ELSE IF c = "L" THEN "l"
    ELSE IF c = "O" THEN "o"
    ELSE IF c = "R" THEN "r"
    ELSE IF c = "B" THEN "b"
    ELSE c

ToLowerCase(term) == [i \in 1 .. Len(term) |-> LowerChar(term[i])]

\* a.includes(b)
Includes(a, b) ==
    \E i \in 1 .. (Len(a) - Len(b) + 1) : SubSeq(a, i, i + Len(b) - 1) = b

\* the words a term is compared with in lines 417-426
NotAModelName ==
    { <<"t", "o", "k", "e", "n", "-", "b", "a", "s", "e", "d">>,
      <<"d", "i", "s", "c", "o", "u", "n", "t", "e", "d">>,
      <<"u", "s", "a", "g", "e">>,
      <<"c", "a", "l", "l", "s">>,
      <<"r", "e", "q", "u", "e", "s", "t">>,
      <<"r", "e", "q", "u", "e", "s", "t", "s">>,
      <<"c", "e", "n", "t", "s">>,
      <<"b", "e", "y", "o", "n", "d">>,
      <<"m", "o", "n", "t", "h">>,
      <<"d", "a", "y">>,
      <<"j", "a", "n", "u", "a", "r", "y">>,
      <<"f", "e", "b", "r", "u", "a", "r", "y">>,
      <<"m", "a", "r", "c", "h">>,
      <<"a", "p", "r", "i", "l">>,
      <<"m", "a", "y">>,
      <<"j", "u", "n", "e">>,
      <<"j", "u", "l", "y">>,
      <<"a", "u", "g", "u", "s", "t">>,
      <<"s", "e", "p", "t", "e", "m", "b", "e", "r">>,
      <<"o", "c", "t", "o", "b", "e", "r">>,
      <<"n", "o", "v", "e", "m", "b", "e", "r">>,
      <<"d", "e", "c", "e", "m", "b", "e", "r">>,
      <<"p", "r", "e", "m", "i", "u", "m">>,
      <<"e", "x", "t", "r", "a">>,
      <<"t", "o", "o", "l">>,
      <<"f", "a", "s", "t">>,
      <<"t", "h", "i", "n", "k", "i", "n", "g">> }

\* the conditions of lines 415-430 on the term
Reportable(term) ==
    /\ Len(term) > 1
    /\ ToLowerCase(term) \notin NotAModelName

\* AlreadyPresent looking only for a recorded term that contains the new one
AlreadyPresentOneWay(detected, term) ==
    \E d \in detected : Includes(ToLowerCase(d), ToLowerCase(term))

\* alreadyPresent of line 431
AlreadyPresent(detected, term) ==
    \E d \in detected :
        \/ Includes(ToLowerCase(d), ToLowerCase(term))
        \/ Includes(ToLowerCase(term), ToLowerCase(d))

\* what one item of the detailed list does to detectedUnknownModels
DetectItem(item, detected) ==
    IF item.description.midMonth THEN detected
    ELSE IF item.modelNameForTooltip # UnknownModel THEN detected
    ELSE LET term == ExtractedTerm(item.description)
         IN  IF Reportable(term) /\ ~AlreadyPresent(detected, term)
             THEN detected \cup {term}
             ELSE detected

RECURSIVE DetectUnknownModels(_, _)
\* the loop of lines 367-492 over the items of the active month
DetectUnknownModels(items, detected) ==
    IF items = <<>> THEN detected
    ELSE DetectUnknownModels(Tail(items), DetectItem(Head(items), detected))

\* ErrorStateAfterFetch leaving the count when no cooldown is on
ErrorStateAfterFetchInCooldown(count, cooldown) ==
    IF cooldown # Nil
    THEN ErrorState(0, Nil)
    ELSE ErrorState(count, cooldown)

\* lines 63-71: the error state once fetchCursorStats has returned
\* (startRefreshInterval() restarts the timer, which is no state of the model)
ErrorStateAfterFetch(count, cooldown) ==
    IF count > 0 \/ cooldown # Nil
    THEN ErrorState(0, IF cooldown # Nil THEN Nil ELSE cooldown)
    ELSE ErrorState(count, cooldown)

\* lines 63-137: the error state, the active month and the actual total cost
ComputeCosts ==
    /\ pc = "fetched"
    /\ LET after == ErrorStateAfterFetch(consecutiveErrorCount, cooldownStartTime)
       IN  /\ consecutiveErrorCount' = after.count
           /\ cooldownStartTime' = after.cooldown
    /\ activeMonthData' = ActiveMonthOf(stats)
    /\ useTeamSpendData' = UsesTeamSpend(stats)
    /\ actualTotalCost' = ActualTotalCost(stats, activeMonthData')
    /\ pc' = "tooltip"
    /\ UNCHANGED <<periodVars, monthVars, runVars, userCache, teamVars, stats, unpaidAmount>>
    /\ UNCHANGED <<lookupVars, modelVars, hostVars>>

\* lines 289-493: the usage-based section of the tooltip with the unpaid
\* amount, and the detailed list with the unknown models
UsageBasedSection ==
    /\ pc = "tooltip"
    /\ LET active == ActiveMonthData(stats, activeMonthData).usageBasedPricing
       IN  /\ IF actualTotalCost > 0 \/ useTeamSpendData \/ Len(active.items) > 0
              THEN unpaidAmount' =
                       [amount |-> UnpaidAmount(useTeamSpendData, actualTotalCost,
                                                active.midMonthPayment)]
              ELSE UNCHANGED unpaidAmount
           /\ detectedUnknownModels' =
                 IF ~useTeamSpendData /\ Len(active.items) > 0
                 THEN DetectUnknownModels(active.items, detectedUnknownModels)
                 ELSE detectedUnknownModels
    /\ pc' = "notify"
    /\ UNCHANGED <<periodVars, monthVars, runVars, userCache, teamVars, stats>>
    /\ UNCHANGED <<activeMonthData, actualTotalCost, useTeamSpendData>>
    /\ UNCHANGED <<lookupVars, unknownModelNotificationShown, notified>>
    /\ UNCHANGED <<errorVars, hostVars>>

\* an awaited helper throws after lines 63-128: convertAndFormatCurrency at
\* line 130, at lines 317-319 or at line 442 after some items of the detailed
\* list, or a helper of lines 496-543 (createMarkdownTooltip)
ThrowAfterFetch ==
    /\ pc \in {"tooltip", "notify"}
    /\ IF pc = "tooltip"
       THEN LET active == ActiveMonthData(stats, activeMonthData).usageBasedPricing
            IN  \/ /\ actualTotalCost > 0 \/ useTeamSpendData
                   /\ UNCHANGED <<unpaidAmount, detectedUnknownModels>>
                \/ /\ actualTotalCost > 0 \/ useTeamSpendData \/ Len(active.items) > 0
                   /\ unpaidAmount' =
                          [amount |-> UnpaidAmount(useTeamSpendData, actualTotalCost,
                                                   active.midMonthPayment)]
                   /\ IF ~useTeamSpendData /\ Len(active.items) > 0
                      THEN \E k \in 0..Len(active.items) :
                              detectedUnknownModels' =
                                  DetectUnknownModels(SubSeq(active.items, 1, k),
                                                      detectedUnknownModels)
                      ELSE UNCHANGED detectedUnknownModels
       ELSE UNCHANGED <<unpaidAmount, detectedUnknownModels>>
    /\ pc' = "caught"
    /\ UNCHANGED <<periodVars, monthVars, runVars, userCache, teamVars, stats>>
    /\ UNCHANGED <<activeMonthData, actualTotalCost, useTeamSpendData>>
    /\ UNCHANGED <<lookupVars, unknownModelNotificationShown, notified>>
    /\ UNCHANGED <<errorVars, hostVars>>

\* NotifyUnknownModels without the latch
NotifyUnknownModelsAlways ==
    /\ pc = "notify"
    /\ IF detectedUnknownModels # {}
       THEN /\ unknownModelNotificationShown' = TRUE
            /\ notified' = TRUE
       ELSE UNCHANGED <<unknownModelNotificationShown, notified>>
    /\ pc' = "idle"
    /\ UNCHANGED <<periodVars, monthVars, runVars, userCache, teamVars, stats, costVars>>
    /\ UNCHANGED <<lookupVars, detectedUnknownModels, errorVars, hostVars>>

\* lines 580-597: the message about the unknown models, once per session
NotifyUnknownModels ==
    /\ pc = "notify"
    /\ IF ~unknownModelNotificationShown /\ detectedUnknownModels # {}
       THEN /\ unknownModelNotificationShown' = TRUE
            /\ notified' = TRUE
       ELSE UNCHANGED <<unknownModelNotificationShown, notified>>
    /\ pc' = "idle"
    /\ UNCHANGED <<periodVars, monthVars, runVars, userCache, teamVars, stats, costVars>>
    /\ UNCHANGED <<lookupVars, detectedUnknownModels, errorVars, hostVars>>

Next ==
    \/ StartUpdate
    \/ CheckTeamMembership
    \/ GetTeamSpend
    \/ TeamIndividualUsage
    \/ IndividualUsage
    \/ BillingPeriods
    \/ FetchCurrentMonth
    \/ FetchLastMonth
    \/ CatchFetchError
    \/ OuterCatch
    \/ ComputeCosts
    \/ UsageBasedSection
    \/ ThrowAfterFetch
    \/ NotifyUnknownModels

Spec == Init /\ [][Next]_vars

(***************************************************************************)
(* Properties of Spec.                                                     *)
(***************************************************************************)
\* fetchCursorStats has returned its snapshot
Returned == stats # Nil

\* updateStats has computed the active month and the actual total cost
CostsComputed == stats # Nil /\ pc # "fetched"

\* checkTeamMembership reported a team member with a team id and a user id
TeamMemberResolved ==
    /\ teamInfo # Nil
    /\ teamInfo.isTeamMember
    /\ Truthy(teamInfo.teamId)
    /\ Truthy(teamInfo.userId)

\* getTeamSpend answered and the answer has an entry of the resolved user
TeamSpendFound ==
    /\ TeamMemberResolved
    /\ teamSpend # Nil
    /\ teamSpend # Failed
    /\ \E i \in 1 .. Len(teamSpend.teamMemberSpend) :
          teamSpend.teamMemberSpend[i].userId = teamInfo.userId

\* getTeamSpend threw, or its answer has no entry of the resolved user
TeamSpendLookupFailed ==
    /\ TeamMemberResolved
    /\ teamSpend # Nil
    /\ \/ teamSpend = Failed
       \/ /\ teamSpend # Failed
          /\ \A i \in 1 .. Len(teamSpend.teamMemberSpend) :
                teamSpend.teamMemberSpend[i].userId # teamInfo.userId

Fetched(answer) == answer # Nil /\ answer # Failed

\* C1: when the user is a resolved team member, team spend has the user's
\* entry and the individual usage fetch of the team branch succeeds, the
\* snapshot is team sourced, premiumRequests.current is the 'gpt-4'
\* numRequests of the individual payload, and the actual total cost is the
\* snapshot's teamSpendCents (cents, i.e. teamSpendCents / 100 dollars).
C1_TeamSnapshot ==
    (Returned /\ TeamSpendFound /\ Fetched(individualUsage)) =>
        /\ stats.isTeamSpendData
        /\ stats.premiumRequests.current = individualUsage.gpt4.numRequests
        /\ stats.teamSpendCents # Undefined
        /\ CostsComputed =>
              /\ useTeamSpendData
              /\ actualTotalCost = stats.teamSpendCents

\* a team snapshot whose current invoice has a positive line that is not counted
C1_Witness ==
    /\ CostsComputed
    /\ TeamSpendFound
    /\ Fetched(individualUsage)
    /\ stats.isTeamSpendData
    /\ Len(stats.currentMonth.usageBasedPricing.items) > 0
    /\ SumPositiveCosts(stats.currentMonth.usageBasedPricing.items) > 0
    /\ actualTotalCost = stats.teamSpendCents

\* C2: when the team-spend lookup failed and the individual usage fetch
\* succeeds, fetchCursorStats does not raise and returns a snapshot that is
\* not team sourced, has no teamSpendCents and takes the premium counters
\* from the individual usage payload.
C2_TeamSpendFallback ==
    (TeamSpendLookupFailed /\ Fetched(usageResponse)) =>
        /\ pc # "raised"
        /\ pc \in {"fetched", "tooltip", "notify", "idle"} => Returned
        /\ Returned =>
              /\ ~stats.isTeamSpendData
              /\ stats.teamSpendCents = Undefined
              /\ stats.premiumRequests.current = usageResponse.gpt4.numRequests
              /\ stats.premiumRequests.limit = usageResponse.gpt4.maxRequestUsage

\* a snapshot returned after a failed team-spend lookup, limit absent in the payload
C2_Witness ==
    /\ TeamSpendLookupFailed
    /\ Fetched(usageResponse)
    /\ Returned
    /\ ~stats.isTeamSpendData
    /\ stats.premiumRequests.limit = Undefined

\* C3: a failure of the team-membership lookup is never fatal: fetchCursorStats
\* does not raise because checkTeamMembership raised.
C3_MembershipFailureNotFatal ==
    ~(pc = "raised" /\ teamInfo = Nil)

\* C4 as claimed: whenever an individual-usage fetch failed, in the team
\* branch or in the fallback branch, no snapshot is returned.
C4_AnyUsageFailureFatal ==
    (individualUsage = Failed \/ usageResponse = Failed) => ~Returned

\* C4 amended: a failure of the fallback individual-usage fetch is re-raised
\* and no snapshot is returned, also after the team branch was tried; a
\* failure of the team branch's own fetch is caught and leads to the
\* fallback fetch.
C4_FallbackUsageFailureFatal ==
    /\ usageResponse = Failed =>
          /\ pc \in {"raised", "caught", "idle"}
          /\ ~Returned
          /\ premiumRequests = Nil
    /\ (individualUsage = Failed /\ pc # "usage") => usageResponse # Nil

\* both fetches failed on the team path and fetchCursorStats raised
C4_Witness ==
    /\ pc = "raised"
    /\ TeamSpendFound
    /\ individualUsage = Failed
    /\ usageResponse = Failed
    /\ ~Returned

EmptyPeriod(data) ==
    /\ data.items = <<>>
    /\ data.midMonthPayment = 0
    /\ data.hasUnpaidMidMonthInvoice = FALSE

\* C5: a failed invoice fetch makes its period empty, leaves the other
\* period as its own invoice gives it, and the snapshot is still returned.
C5_InvoiceFailureDegrades ==
    /\ (currentInvoice = Failed /\ pc # "fetchLast") => Returned
    /\ lastInvoice = Failed => Returned
    /\ Returned =>
          /\ currentInvoice = Failed => EmptyPeriod(stats.currentMonth.usageBasedPricing)
          /\ lastInvoice = Failed => EmptyPeriod(stats.lastMonth.usageBasedPricing)
          /\ currentInvoice # Failed =>
                stats.currentMonth.usageBasedPricing = FetchMonthData(currentInvoice)
          /\ lastInvoice # Failed =>
                stats.lastMonth.usageBasedPricing = FetchMonthData(lastInvoice)

\* the current invoice failed, the previous one keeps its items
C5_Witness ==
    /\ Returned
    /\ currentInvoice = Failed
    /\ lastInvoice # Failed
    /\ EmptyPeriod(stats.currentMonth.usageBasedPricing)
    /\ Len(stats.lastMonth.usageBasedPricing.items) > 0

\* the invoice data of the month updateStats reads
ActivePricing == ActiveMonthData(stats, activeMonthData).usageBasedPricing

\* C8: the unpaid amount is never negative; without team spend it is
\* max(0, actualTotalCost - midMonthPayment) of the active month, and it is
\* 0 whenever actualTotalCost < midMonthPayment.
C8_UnpaidNeverNegative ==
    unpaidAmount # Nil =>
        /\ unpaidAmount.amount >= 0
        /\ ~stats.isTeamSpendData =>
              unpaidAmount.amount =
                  (IF actualTotalCost - ActivePricing.midMonthPayment > 0
                   THEN actualTotalCost - ActivePricing.midMonthPayment
                   ELSE 0)
        /\ actualTotalCost < ActivePricing.midMonthPayment => unpaidAmount.amount = 0

\* the mid-month payment exceeds the cost and nothing is unpaid
C8_Witness ==
    /\ unpaidAmount # Nil
    /\ ~stats.isTeamSpendData
    /\ actualTotalCost > 0
    /\ actualTotalCost < ActivePricing.midMonthPayment
    /\ unpaidAmount.amount = 0

\* the invoice answer the active month was parsed from
ActiveInvoice == IF activeMonthData = "current" THEN currentInvoice ELSE lastInvoice

\* a line fetchMonthData lists as a usage item
ListedUsageLine(item) ==
    /\ item.hasCents
    /\ item.description # Nil
    /\ ~item.description.midMonth
    /\ item.description.lead # NoLead
    /\ item.description.lead # 0

\* a line fetchMonthData lists as the mid-month payment line
ListedPaymentLine(item) ==
    /\ item.hasCents
    /\ item.description # Nil
    /\ item.description.midMonth

RECURSIVE PositiveUsageCents(_)
\* the cents of the usage lines with a cost above 0
PositiveUsageCents(items) ==
    IF items = <<>> THEN 0
    ELSE (IF ListedUsageLine(Head(items)) /\ Head(items).cents > 0
          THEN Head(items).cents ELSE 0)
         + PositiveUsageCents(Tail(items))

InvoiceLines(answer) == IF answer = Failed THEN <<>> ELSE answer.items

\* C9: without team spend the actual total cost is the sum of the costs of
\* the active month's items that are above 0; the lines with a cost of 0 or
\* less and the mid-month payment lines stay in the item list.
C9_PositiveCostsOnly ==
    (CostsComputed /\ ~stats.isTeamSpendData) =>
        /\ actualTotalCost = PositiveUsageCents(InvoiceLines(ActiveInvoice))
        /\ Len(ActivePricing.items) =
              Cardinality({ i \in 1 .. Len(InvoiceLines(ActiveInvoice)) :
                              \/ ListedUsageLine(InvoiceLines(ActiveInvoice)[i])
                              \/ ListedPaymentLine(InvoiceLines(ActiveInvoice)[i]) })

\* a credit line and a positive line: the total is the positive line alone
C9_Witness ==
    /\ CostsComputed
    /\ ~stats.isTeamSpendData
    /\ Len(ActivePricing.items) = 2
    /\ \E i \in 1 .. 2 : ParseCost(ActivePricing.items[i].totalDollars).cents < 0
    /\ \E i \in 1 .. 2 : ParseCost(ActivePricing.items[i].totalDollars).cents = actualTotalCost
    /\ actualTotalCost > 0

(***************************************************************************)
(* Properties of SpecMonth: the lines of an invoice and the items they      *)
(* give.                                                                    *)
(***************************************************************************)
\* fetchMonthData has parsed the lines of currentInvoice
MonthParsed ==
    /\ pc = "monthDone"
    /\ currentInvoice # Failed
    /\ currentInvoice.hasItems
    /\ currentMonthData # Threw

\* a line that gives an entry of the item list
ListedLine(item) == ListedUsageLine(item) \/ ListedPaymentLine(item)

\* the lines of currentInvoice that give an entry, in their order
ListedLines == SelectSeq(currentInvoice.items, ListedLine)

RECURSIVE PaidCents(_)
\* the sum of |cents| over the mid-month payment lines
PaidCents(items) ==
    IF items = <<>> THEN 0
    ELSE (IF ListedPaymentLine(Head(items))
          THEN (IF Head(items).cents < 0 THEN 0 - Head(items).cents ELSE Head(items).cents)
          ELSE 0)
         + PaidCents(Tail(items))

\* C11: every line with the mid-month marker and cents adds |cents| to
\* midMonthPayment and gives no usage item (its entry of the list is the
\* running-total line, without request count and model); at the end
\* midMonthPayment is the sum of |cents| over these lines.
C11_MidMonthPayments ==
    MonthParsed =>
        /\ currentMonthData.midMonthPayment = PaidCents(currentInvoice.items)
        /\ Len(currentMonthData.items) = Len(ListedLines)
        /\ \A i \in 1 .. Len(ListedLines) :
              ListedPaymentLine(ListedLines[i]) =>
                  /\ ~IsUsageItem(currentMonthData.items[i])
                  /\ "modelNameForTooltip" \notin DOMAIN currentMonthData.items[i]
                  /\ ParseCost(currentMonthData.items[i].totalDollars).cents =
                        0 - PaidCents(SubSeq(ListedLines, 1, i))

\* two payment lines, one with negative and one with positive cents
C11_Witness ==
    /\ MonthParsed
    /\ Len(currentInvoice.items) = 2
    /\ ListedPaymentLine(currentInvoice.items[1])
    /\ ListedPaymentLine(currentInvoice.items[2])
    /\ currentInvoice.items[1].cents < 0
    /\ currentInvoice.items[2].cents > 0
    /\ currentMonthData.midMonthPayment = 800
    /\ \A i \in 1 .. Len(currentMonthData.items) : ~IsUsageItem(currentMonthData.items[i])

\* a line with cents that matches the token-based pattern, with a count above 0
TokenLine(item) ==
    /\ ListedUsageLine(item)
    /\ item.description.shape = "token"

\* C12: a line with cents that matches the token-based pattern gives one
\* usage item with the request count and the model name of the pattern, the
\* cost cents / 100, and isDiscounted as the 'discounted' marker says.
C12_TokenBasedLine ==
    MonthParsed =>
        /\ Len(currentMonthData.items) = Len(ListedLines)
        /\ \A i \in 1 .. Len(ListedLines) :
              TokenLine(ListedLines[i]) =>
                  LET item == currentMonthData.items[i]
                      d == ListedLines[i].description
                  IN  /\ IsUsageItem(item)
                      /\ item.calculation.requestCount = d.lead
                      /\ item.modelNameForTooltip = d.tokenModel
                      /\ ~ParseCost(item.totalDollars).isNaN
                      /\ ParseCost(item.totalDollars).cents = ListedLines[i].cents
                      /\ item.isDiscounted = d.discounted

\* the line of 142 calls to claude-4-sonnet for 994 cents
C12_Witness ==
    /\ MonthParsed
    /\ Len(currentMonthData.items) = 1
    /\ IsUsageItem(currentMonthData.items[1])
    /\ currentMonthData.items[1].calculation.requestCount = 142
    /\ currentMonthData.items[1].modelNameForTooltip = "claude-4-sonnet"
    /\ ParseCost(currentMonthData.items[1].totalDollars).cents = 994
    /\ ~currentMonthData.items[1].isDiscounted

\* a line '<N> extra fast premium request(s) (<qualifier>)' without tool-call
\* marker and known model name
ExtraFastLine(item) ==
    /\ ListedUsageLine(item)
    /\ item.description.shape = "phrase"
    /\ ~item.description.toolCalls
    /\ item.description.knownModel = None
    /\ item.description.extraFast # None
    /\ item.description.extraFast # NoQualifier

\* C13: a line '<N> extra fast premium request(s) (<qualifier>)' without
\* tool-call marker and known model name gives a usage item with request
\* count N and the text in the parentheses as model name.
C13_ExtraFastQualifier ==
    MonthParsed =>
        /\ Len(currentMonthData.items) = Len(ListedLines)
        /\ \A i \in 1 .. Len(ListedLines) :
              ExtraFastLine(ListedLines[i]) =>
                  /\ IsUsageItem(currentMonthData.items[i])
                  /\ currentMonthData.items[i].calculation.requestCount =
                        ListedLines[i].description.lead
                  /\ currentMonthData.items[i].modelNameForTooltip =
                        ListedLines[i].description.extraFast

\* '3 extra fast premium requests (haiku)' gives 3 and 'haiku'
C13_Witness ==
    /\ MonthParsed
    /\ Len(currentMonthData.items) = 1
    /\ ExtraFastLine(currentInvoice.items[1])
    /\ currentMonthData.items[1].calculation.requestCount = 3
    /\ currentMonthData.items[1].modelNameForTooltip = "haiku"

(***************************************************************************)
(* SpecCache: calls of checkTeamMembership, one after the other, on every    *)
(* state of user-cache.json.  What fetchCursorStats and updateStats do       *)
(* after the call is one step, since it leaves the cache alone.              *)
(***************************************************************************)
Subjects == { JwtSubOf(tok) : tok \in Tokens }

\* tokens of two users whose second part gives no subject
SubjectlessTokens == { Token("user_C", None), Token("user_D", None) }

\* what user-cache.json can hold when the extension starts: nothing, text
\* that cannot be read or parsed, or a record written earlier (a record of
\* a lookup whose usage answer had no startOfMonth has none)
CacheFiles ==
    {Nil, Unreadable, Corrupt}
    \cup { CacheData(sub, FALSE, Undefined, Undefined, startOfMonth) :
             sub \in Subjects, startOfMonth \in StartsOfMonth \cup {Nil} }
    \cup { CacheData(sub, TRUE, 9, 7, startOfMonth) :
             sub \in Subjects, startOfMonth \in StartsOfMonth \cup {Nil} }

InitCache ==
    /\ pc = "idle"
    /\ userCache \in CacheFiles
    /\ subscriptionStart = Nil
    /\ currentDate = Nil
    /\ currentPeriodStart = Nil
    /\ previousPeriodStart = Nil
    /\ currentInvoice = Nil
    /\ lastInvoice = Nil
    /\ currentMonthData = Nil
    /\ lastMonthData = Nil
    /\ token = Nil
    /\ fetchToken = Nil
    /\ attempt = 0
    /\ error = Undefined
    /\ lookedUp = {}
    /\ detectedUnknownModels = {}
    /\ unknownModelNotificationShown = FALSE
    /\ sessionTokens = Tokens \cup SubjectlessTokens
    /\ consecutiveErrorCount = 0
    /\ cooldownStartTime = Nil
    /\ runs = <<>>
    /\ errorStateAtStart = Nil
    /\ NoFetch

\* fetchCursorStats and updateStats after checkTeamMembership returned: a
\* later request of fetchCursorStats fails, or the snapshot is returned, the
\* error state is reset and updateStats ends, normally or in the outer catch
RestOfRun ==
    /\ pc \in {"teamSpend", "usage"}
    /\ \/ /\ \E status \in ErrorStatuses : Raise(status)
          /\ UNCHANGED errorVars
       \/ /\ LET after == ErrorStateAfterFetch(consecutiveErrorCount, cooldownStartTime)
             IN  /\ consecutiveErrorCount' = after.count
                 /\ cooldownStartTime' = after.cooldown
          /\ pc' \in {"idle", "caught"}
          /\ UNCHANGED error
    /\ UNCHANGED <<periodVars, monthVars, token, fetchToken, attempt, userCache>>
    /\ UNCHANGED <<teamVars, stats, costVars, lookupVars, modelVars, hostVars>>

NextCache ==
    \/ StartUpdate
    \/ CheckTeamMembership
    \/ CatchFetchError
    \/ OuterCatch
    \/ RestOfRun

SpecCache == InitCache /\ [][NextCache]_vars

\* the cache holds a record of the subject of the token
RecordOfSubject ==
    /\ LoadUserCache(userCache) # Nil
    /\ LoadUserCache(userCache).jwtSub = JwtSubOf(fetchToken)

\* C14 as claimed: a call that finds a cached record of the token's subject
\* returns that record and sends no request.
C14_RecordOfSubjectAnswers ==
    [][(pc = "membership" /\ RecordOfSubject) =>
            /\ lookupRequests' = 0
            /\ pc' # "raised"
            /\ userCache' = userCache
            /\ teamInfo' = [isTeamMember |-> userCache.isTeamMember,
                            teamId |-> userCache.teamId,
                            userId |-> userCache.userId,
                            startOfMonth |-> userCache.startOfMonth]]_vars

\* C14 amended: a call that finds a cached record of the token's subject
\* with a startOfMonth returns that record and sends no request; a record
\* without startOfMonth is a miss.
C14_CompleteRecordAnswers ==
    [][(pc = "membership" /\ RecordOfSubject) =>
            IF userCache.startOfMonth # Nil
            THEN /\ lookupRequests' = 0
                 /\ pc' # "raised"
                 /\ userCache' = userCache
                 /\ teamInfo' = [isTeamMember |-> userCache.isTeamMember,
                                 teamId |-> userCache.teamId,
                                 userId |-> userCache.userId,
                                 startOfMonth |-> userCache.startOfMonth]
            ELSE lookupRequests' > 0]_vars

\* a call was answered from the record of the token's subject
C14_Witness ==
    /\ pc \in {"teamSpend", "usage"}
    /\ RecordOfSubject
    /\ lookupRequests = 0
    /\ teamInfo # Nil
    /\ teamInfo.startOfMonth = userCache.startOfMonth

\* C15: each subject causes at most one fresh lookup: a call sends requests
\* only for a subject no fresh lookup was started for before, also when the
\* subjects of the calls alternate and when a lookup or the save fails.
C15_OneLookupPerSubject ==
    [][(pc = "membership" /\ lookupRequests' > 0) =>
            JwtSubOf(fetchToken) \notin lookedUp]_vars

\* C16: with user-cache.json missing, unreadable or corrupt the call does
\* not fail on the cache: loadUserCache gives no record and the fresh lookup
\* is made.
C16_BrokenCacheIsMiss ==
    [][(pc = "membership" /\ userCache \in {Nil, Unreadable, Corrupt}) =>
            /\ LoadUserCache(userCache) = Nil
            /\ lookupRequests' > 0
            /\ JwtSubOf(fetchToken) \in lookedUp']_vars

\* a fresh lookup returned while the file was corrupt and stayed so
C16_Witness ==
    /\ pc \in {"teamSpend", "usage"}
    /\ userCache = Corrupt
    /\ teamInfo # Nil
    /\ lookupRequests > 0

(***************************************************************************)
(* SpecModels: refresh cycles of a user without team spend whose current    *)
(* invoice has lines of unknown models.  The fetch of a cycle is one step   *)
(* and every cycle runs to its end; SpecErrors and SpecRuns have the       *)
(* cycles that end in the outer catch.                                     *)
(***************************************************************************)
ModelLines ==
    { Line(250, DescUnknown),
      Line(90, DescUnknownMini),
      Line(80, DescUnknownUpper),
      Line(40, DescUnknownZeta),
      Line(30, DescPremium),
      Line(994, DescToken),
      Line(-500, DescMidMonth) }

ModelInvoices ==
    { InvoiceResponse(items, FALSE) : items \in SeqsUpTo(ModelLines, MaxItems) }

InitModels == Init

\* updateStats from its start to the actual total cost, for a user who is in
\* no team: the current invoice is the input, the previous one has no lines
FetchedSnapshot ==
    /\ pc = "idle"
    /\ \E invoice \in ModelInvoices :
        LET start == [y |-> 2023, m |-> 2, d |-> 15, t |-> 0]
            usage == UsageData(12, 500, start)
        IN  /\ currentInvoice' = invoice
            /\ currentMonthData' = MonthDataOrEmpty(invoice)
            /\ stats' = CursorStats(start, PreviousPeriodStartOf(start),
                                    currentMonthData', EmptyMonthData,
                                    IndividualPremiumRequests(usage), FALSE,
                                    FreshTeamInfo(FALSE, Undefined, Undefined, start),
                                    Undefined)
    /\ activeMonthData' = ActiveMonthOf(stats')
    /\ useTeamSpendData' = UsesTeamSpend(stats')
    /\ actualTotalCost' = ActualTotalCost(stats', activeMonthData')
    /\ unpaidAmount' = Nil
    /\ notified' = FALSE
    /\ errorStateAtStart' = ErrorState(consecutiveErrorCount, cooldownStartTime)
    /\ LET after == ErrorStateAfterFetch(consecutiveErrorCount, cooldownStartTime)
       IN  /\ consecutiveErrorCount' = after.count
           /\ cooldownStartTime' = after.cooldown
    /\ pc' = "tooltip"
    /\ UNCHANGED <<periodVars, lastInvoice, lastMonthData, runVars, userCache, teamVars>>
    /\ UNCHANGED <<lookupVars, detectedUnknownModels, unknownModelNotificationShown>>
    /\ UNCHANGED <<sessionTokens, runs>>

NextModels ==
    \/ FetchedSnapshot
    \/ UsageBasedSection
    \/ NotifyUnknownModels

SpecModels == InitModels /\ [][NextModels]_vars

\* the detailed list of this cycle has an item with this term
ListedTerm(term) ==
    /\ stats # Nil
    /\ \E i \in 1 .. Len(stats.currentMonth.usageBasedPricing.items) :
          ExtractedTerm(stats.currentMonth.usageBasedPricing.items[i].description) = term

\* C17: detectedUnknownModels never holds two terms of which one contains
\* the other, the case of the letters put aside.
C17_NoContainedTerms ==
    \A a \in detectedUnknownModels : \A b \in detectedUnknownModels :
        a # b => ~Includes(ToLowerCase(a), ToLowerCase(b))

\* 'glorbo-7' was recorded, 'glorbo-7-mini' was listed, and one entry is held
C17_Witness ==
    /\ pc = "notify"
    /\ ListedTerm(Glorbo7Mini)
    /\ detectedUnknownModels = {Glorbo7}

\* C18: the message about the unknown models is shown at most once: the
\* latch unknownModelNotificationShown stays true, detectedUnknownModels
\* loses no term, and no step shows the message once the latch is set.
C18_ReportedOnce ==
    [][/\ unknownModelNotificationShown => unknownModelNotificationShown'
       /\ detectedUnknownModels \subseteq detectedUnknownModels'
       /\ (unknownModelNotificationShown /\ notified') => notified]_vars

\* a later cycle recorded a second term and ended without the message
C18_Witness ==
    /\ pc = "idle"
    /\ unknownModelNotificationShown
    /\ ~notified
    /\ Cardinality(detectedUnknownModels) = 2

(***************************************************************************)
(* The premium counters of a snapshot (Spec) and the lines fetchMonthData   *)
(* cannot use (SpecMonth).                                                  *)
(***************************************************************************)
\* the body of /api/usage the premium counters of the snapshot were read from
CounterPayload == IF stats.isTeamSpendData THEN individualUsage ELSE usageResponse

\* C19: in every snapshot, team sourced or not, premiumRequests.current and
\* premiumRequests.limit are the numRequests and the maxRequestUsage of the
\* 'gpt-4' entry of the individual usage payload fetched in that build.
C19_CountersFromPayload ==
    Returned =>
        /\ stats.premiumRequests.current = CounterPayload.gpt4.numRequests
        /\ stats.premiumRequests.limit = CounterPayload.gpt4.maxRequestUsage

\* a line with a data-shape anomaly: no cents, no description, a description
\* without a leading count, or a count of 0
AnomalousLine(item) ==
    \/ ~item.hasCents
    \/ item.description = Nil
    \/ /\ ~item.description.midMonth
       /\ item.description.lead \in {NoLead, 0}

RegularLine(item) == ~AnomalousLine(item)

WithoutAnomalousLines(response) ==
    [response EXCEPT !.items = SelectSeq(response.items, RegularLine)]

\* C20: a line with a data-shape anomaly never makes fetchMonthData raise and
\* is dropped alone: the period is the one the invoice without such lines
\* gives.
C20_AnomalousLineDropped ==
    (pc = "monthDone" /\ currentInvoice # Failed /\ currentInvoice.hasItems) =>
        /\ currentMonthData # Threw
        /\ currentMonthData = FetchMonthData(WithoutAnomalousLines(currentInvoice))

(***************************************************************************)
(* The team spend of a snapshot (Spec).                                     *)
(***************************************************************************)
\* the entry of the team-spend payload whose userId is the resolved user id
PayloadEntry ==
    teamSpend.teamMemberSpend[FindMember(teamSpend.teamMemberSpend, teamInfo.userId)]

\* C21: in a team-sourced snapshot teamSpendCents is the spendCents of the
\* entry of the team-spend payload whose userId is the resolved team user id.
C21_TeamSpendFromPayload ==
    (Returned /\ stats.isTeamSpendData) =>
        /\ TeamSpendFound
        /\ stats.teamSpendCents = PayloadEntry.spendCents

(***************************************************************************)
(* The current period and the present moment (SpecPeriods).                 *)
(***************************************************************************)
\* C22: for every subscriptionStart <= now the current period contains now:
\* currentPeriodStart <= now < currentPeriodStart moved forward by one month.
C22_CurrentPeriodContainsNow ==
    (pc = "periodsDone" /\ ~DateLT(currentDate, subscriptionStart)) =>
        /\ ~DateLT(currentDate, currentPeriodStart)
        /\ DateLT(currentDate, SetMonth(currentPeriodStart, currentPeriodStart.m + 1))

(***************************************************************************)
(* The order of the decisions of fetchMonthData on a line (SpecMonth).      *)
(***************************************************************************)
\* the model name the first matching rule gives a listed usage line:
\* token-based pattern, then in the '<N> <phrase>' pattern the tool-call
\* marker, the known model name, the extra-fast qualifier and the unknown
\* sentinel, then the leading integer alone
FirstMatchName(d) ==
    CASE d.shape = "token" -> d.tokenModel
      [] d.shape = "phrase" /\ d.toolCalls -> ToolCallsName
      [] d.shape = "phrase" /\ ~d.toolCalls /\ d.knownModel # None -> d.knownModel
      [] d.shape = "phrase" /\ ~d.toolCalls /\ d.knownModel = None /\ d.extraFast # None ->
            (IF d.extraFast = NoQualifier THEN FastPremiumName ELSE d.extraFast)
      [] d.shape = "phrase" /\ ~d.toolCalls /\ d.knownModel = None /\ d.extraFast = None ->
            UnknownModel
      [] d.shape = "bare" -> UnknownModel

\* the number of rules whose own test the line passes
LaterMatches(item) ==
    LET d == item.description
    IN  Cardinality({ rule \in {"midMonth", "token", "toolCalls", "knownModel", "extraFast"} :
            \/ rule = "midMonth" /\ d.midMonth
            \/ rule = "token" /\ d.shape = "token"
            \/ rule = "toolCalls" /\ d.toolCalls
            \/ rule = "knownModel" /\ d.knownModel # None
            \/ rule = "extraFast" /\ d.extraFast # None })

\* C23: the line classifier decides in a fixed order and the first rule that
\* matches wins: a line without cents is skipped, whatever its description;
\* a line with the mid-month marker is a payment, whatever else matches; a
\* line of the token-based pattern takes the model of the pattern; a line of
\* the '<N> <phrase>' pattern takes the tool-call name, else the known model
\* name, else the extra-fast name, else the unknown sentinel; a line with
\* only a leading integer takes the unknown sentinel.
C23_FirstMatchWins ==
    MonthParsed =>
        /\ Len(currentMonthData.items) = Len(ListedLines)
        /\ \A k \in 1 .. Len(currentInvoice.items) :
              ~currentInvoice.items[k].hasCents => ~ListedLine(currentInvoice.items[k])
        /\ \A i \in 1 .. Len(ListedLines) :
              LET line == ListedLines[i]
                  item == currentMonthData.items[i]
              IN  /\ item.description = line.description
                  /\ line.description.midMonth => ~IsUsageItem(item)
                  /\ ~line.description.midMonth =>
                        /\ IsUsageItem(item)
                        /\ item.modelNameForTooltip = FirstMatchName(line.description)

\* '5 gpt-4 tool calls' is listed with the tool-call name, and the line with
\* the token-based pattern and the mid-month marker is listed as a payment
C23_Witness ==
    /\ MonthParsed
    /\ Len(currentInvoice.items) = 2
    /\ Len(currentMonthData.items) = 2
    /\ currentInvoice.items[1].description = DescToolCallsKnown
    /\ LaterMatches(currentInvoice.items[1]) = 2
    /\ currentMonthData.items[1].modelNameForTooltip = ToolCallsName
    /\ currentInvoice.items[2].description = DescMidMonthToken
    /\ LaterMatches(currentInvoice.items[2]) = 3
    /\ ~IsUsageItem(currentMonthData.items[2])

(***************************************************************************)
(* The active period of updateStats (Spec).                                 *)
(***************************************************************************)
\* the current period of the snapshot has at least one item
CurrentHasItems == Len(stats.currentMonth.usageBasedPricing.items) > 0

\* team spend is in effect: the snapshot is team sourced and has teamSpendCents
TeamSpendInEffect == stats.isTeamSpendData /\ stats.teamSpendCents # Undefined

\* C24: updateStats reads the invoice data of the current period exactly when
\* that period has at least one item or team spend is in effect; in every
\* other case it reads the data of the previous period.
C24_ActivePeriod ==
    CostsComputed =>
        /\ (CurrentHasItems \/ TeamSpendInEffect) =>
              /\ activeMonthData = "current"
              /\ ActivePricing = stats.currentMonth.usageBasedPricing
        /\ ~(CurrentHasItems \/ TeamSpendInEffect) =>
              /\ activeMonthData = "last"
              /\ ActivePricing = stats.lastMonth.usageBasedPricing

\* a team snapshot whose current period has no item and whose previous
\* period has some: the current period is read
C24_Witness ==
    /\ CostsComputed
    /\ TeamSpendInEffect
    /\ ~CurrentHasItems
    /\ Len(stats.lastMonth.usageBasedPricing.items) > 0
    /\ activeMonthData = "current"

(***************************************************************************)
(* The unknown-model lines of a refresh cycle (Spec).                       *)
(***************************************************************************)
\* the detector has seen the item: its term is recorded, or contained in or
\* containing a recorded one, unless the term is not reportable
SeenByDetector(item) ==
    Reportable(ExtractedTerm(item.description)) =>
        AlreadyPresent(detectedUnknownModels, ExtractedTerm(item.description))

UnknownItem(item) == IsUsageItem(item) /\ item.modelNameForTooltip = UnknownModel

\* C25: every invoice line the parser gives the unknown-model sentinel is
\* forwarded to the unknown-model detector in the same cycle, for both
\* fetched periods and whether or not the snapshot is team sourced.
C25_UnknownLinesForwarded ==
    pc = "notify" =>
        /\ \A i \in 1 .. Len(stats.currentMonth.usageBasedPricing.items) :
              UnknownItem(stats.currentMonth.usageBasedPricing.items[i]) =>
                  SeenByDetector(stats.currentMonth.usageBasedPricing.items[i])
        /\ \A i \in 1 .. Len(stats.lastMonth.usageBasedPricing.items) :
              UnknownItem(stats.lastMonth.usageBasedPricing.items[i]) =>
                  SeenByDetector(stats.lastMonth.usageBasedPricing.items[i])

(***************************************************************************)
(* The record of the cache and the anchor of the periods.                   *)
(***************************************************************************)
\* the cache holds a record of another subject than the token's
OtherSubjectCached ==
    /\ LoadUserCache(userCache) # Nil
    /\ LoadUserCache(userCache).jwtSub # JwtSubOf(fetchToken)

\* C26 as claimed (SpecCache): after a fresh lookup for a subject other than
\* the cached one the stored record holds the values of that lookup only.
C26_RecordReplaced ==
    [][(pc = "membership" /\ OtherSubjectCached /\ pc' # "raised") =>
            userCache' = [userId |-> IF Truthy(teamInfo'.userId) THEN teamInfo'.userId ELSE 0,
                          jwtSub |-> JwtSubOf(fetchToken),
                          isTeamMember |-> teamInfo'.isTeamMember,
                          teamId |-> teamInfo'.teamId,
                          startOfMonth |-> teamInfo'.startOfMonth]]_vars

\* C26 amended (SpecCache): a call for a subject other than the cached one
\* never merges: when the lookup returns, the stored record holds the values
\* of that lookup only (userId 0 when the lookup gave none), or, when the
\* write failed, it is the previous record unchanged; when the lookup fails
\* the previous record stays unchanged.
C26_RecordReplacedOrKept ==
    [][(pc = "membership" /\ OtherSubjectCached) =>
            IF pc' = "raised" THEN userCache' = userCache
            ELSE \/ userCache' = userCache
                 \/ userCache' =
                        [userId |-> IF Truthy(teamInfo'.userId) THEN teamInfo'.userId ELSE 0,
                         jwtSub |-> JwtSubOf(fetchToken),
                         isTeamMember |-> teamInfo'.isTeamMember,
                         teamId |-> teamInfo'.teamId,
                         startOfMonth |-> teamInfo'.startOfMonth]]_vars

\* both subjects were looked up, and the record is the one of the last
\* lookup, which found no team
C26_Witness ==
    /\ pc = "usage"
    /\ lookedUp = {"sub_A", "sub_B"}
    /\ lookupRequests > 0
    /\ teamInfo # Nil
    /\ ~teamInfo.isTeamMember
    /\ userCache = CacheData(JwtSubOf(fetchToken), FALSE, Undefined, Undefined,
                             teamInfo.startOfMonth)

\* C27 (Spec): in every snapshot premiumRequests.startOfMonth is the
\* startOfMonth of an individual usage payload fetched in the same build
\* (the one the premium counters were read from, or the one the fresh
\* membership lookup of this build fetched), also when checkTeamMembership
\* answered from a cached record.
C27_AnchorFromPayload ==
    Returned =>
        \/ stats.premiumRequests.startOfMonth = CounterPayload.startOfMonth
        \/ /\ lookupRequests > 0
           /\ stats.premiumRequests.startOfMonth = teamInfo.startOfMonth

\* C28 (SpecCache): checkTeamMembership answers from the cache only when the
\* token gives a subject and the stored subject is that one.
C28_HitOnlyForOwnSubject ==
    [][(pc = "membership" /\ pc' # "raised" /\ lookupRequests' = 0) =>
            /\ JwtSubOf(fetchToken) # None
            /\ LoadUserCache(userCache) # Nil
            /\ LoadUserCache(userCache).jwtSub = JwtSubOf(fetchToken)]_vars

(***************************************************************************)
(* The error count and the cooldown across the runs of updateStats.        *)
(***************************************************************************)
\* a cooldown that has been started
CooldownStarted == [started |-> TRUE]

\* the refresh timer starts the cooldown once runs have failed
StartCooldown ==
    /\ pc = "idle"
    /\ consecutiveErrorCount > 0
    /\ cooldownStartTime = Nil
    /\ cooldownStartTime' = CooldownStarted
    /\ UNCHANGED <<pc, periodVars, monthVars, runVars, userCache, teamVars, stats, costVars>>
    /\ UNCHANGED <<lookupVars, modelVars, consecutiveErrorCount, hostVars>>

InitErrors == Init

NextErrors ==
    \/ StartUpdate
    \/ CheckTeamMembership
    \/ GetTeamSpend
    \/ TeamIndividualUsage
    \/ IndividualUsage
    \/ BillingPeriods
    \/ FetchCurrentMonth
    \/ FetchLastMonth
    \/ CatchFetchError
    \/ OuterCatch
    \/ ComputeCosts
    \/ UsageBasedSection
    \/ ThrowAfterFetch
    \/ NotifyUnknownModels
    \/ StartCooldown

SpecErrors == InitErrors /\ [][NextErrors]_vars

NumRuns == 2

\* the lines of the invoices the interleaved runs get
RunLines ==
    { <<>>,
      <<Line(250, DescUnknown)>>,
      <<Line(250, DescUnknown), Line(90, DescUnknownMini)>>,
      <<Line(90, DescUnknownMini), Line(250, DescUnknown)>>,
      <<Line(40, DescUnknownZeta), Line(250, DescUnknown)>>,
      <<Line(90, DescUnknownMini), Line(40, DescUnknownZeta)>>,
      <<Line(-500, DescMidMonth), Line(90, DescUnknownMini)>> }

RunInvoices == { InvoiceResponse(items, FALSE) : items \in RunLines }

\* a run of updateStats: where it stands, the items of its detailed list,
\* the item its loop comes to next, and whether it showed the message
Run(at, items, next, shown) ==
    [pc |-> at, items |-> items, next |-> next, notified |-> shown]

InitRuns ==
    /\ pc = "idle"
    /\ subscriptionStart = Nil
    /\ currentDate = Nil
    /\ currentPeriodStart = Nil
    /\ previousPeriodStart = Nil
    /\ currentInvoice = Nil
    /\ lastInvoice = Nil
    /\ currentMonthData = Nil
    /\ lastMonthData = Nil
    /\ token = Nil
    /\ fetchToken = Nil
    /\ attempt = 0
    /\ error = Undefined
    /\ userCache = Nil
    /\ lookedUp = {}
    /\ detectedUnknownModels = {}
    /\ unknownModelNotificationShown = FALSE
    /\ sessionTokens = {}
    /\ consecutiveErrorCount = 0
    /\ cooldownStartTime = Nil
    /\ errorStateAtStart = Nil
    /\ runs = [r \in 1 .. NumRuns |-> Run("idle", <<>>, 1, FALSE)]
    /\ NoFetch

\* what a step of an interleaved run leaves alone
RunStep ==
    /\ UNCHANGED <<pc, periodVars, monthVars, runVars, userCache, teamVars, stats, costVars>>
    /\ UNCHANGED <<lookupVars, notified, errorVars, sessionTokens, errorStateAtStart>>

\* lines 24-366: a run gets the snapshot of a user who is in no team and
\* comes to the detailed list of the current period
RunFetched ==
    /\ \E r \in DOMAIN runs :
          /\ runs[r].pc = "idle"
          /\ \E invoice \in RunInvoices :
                runs' = [runs EXCEPT ![r] =
                            Run("list", MonthDataOrEmpty(invoice).items,
                                1, FALSE)]
    /\ UNCHANGED <<detectedUnknownModels, unknownModelNotificationShown>>
    /\ RunStep

\* lines 367-492, one turn of the loop: the test and the add of lines
\* 431-433 run with no await in between, the await of line 442 follows
RunDetectItem ==
    /\ \E r \in DOMAIN runs :
          /\ runs[r].pc = "list"
          /\ runs[r].next <= Len(runs[r].items)
          /\ detectedUnknownModels' =
                 DetectItem(runs[r].items[runs[r].next], detectedUnknownModels)
          /\ runs' = [runs EXCEPT ![r].next = @ + 1]
    /\ UNCHANGED unknownModelNotificationShown
    /\ RunStep

\* an awaited helper of a run throws at line 442 or at lines 496-543: the run
\* ends in the outer catch
RunThrows ==
    /\ \E r \in DOMAIN runs :
          /\ runs[r].pc = "list"
          /\ runs' = [runs EXCEPT ![r].pc = "done"]
    /\ UNCHANGED <<detectedUnknownModels, unknownModelNotificationShown>>
    /\ RunStep

\* RunNotify showing the message whatever the latch says
RunNotifyUnlatched ==
    /\ \E r \in DOMAIN runs :
          /\ runs[r].pc = "list"
          /\ runs[r].next > Len(runs[r].items)
          /\ IF detectedUnknownModels # {}
             THEN /\ unknownModelNotificationShown' = TRUE
                  /\ runs' = [runs EXCEPT ![r] = Run("done", @.items, @.next, TRUE)]
             ELSE /\ UNCHANGED unknownModelNotificationShown
                  /\ runs' = [runs EXCEPT ![r].pc = "done"]
    /\ UNCHANGED detectedUnknownModels
    /\ RunStep

\* lines 580-597 of a run that is through its list and the awaits of lines
\* 496-543: the test of the latch and its setting run with no await in between
RunNotify ==
    /\ \E r \in DOMAIN runs :
          /\ runs[r].pc = "list"
          /\ runs[r].next > Len(runs[r].items)
          /\ IF ~unknownModelNotificationShown /\ detectedUnknownModels # {}
             THEN /\ unknownModelNotificationShown' = TRUE
                  /\ runs' = [runs EXCEPT ![r] = Run("done", @.items, @.next, TRUE)]
             ELSE /\ UNCHANGED unknownModelNotificationShown
                  /\ runs' = [runs EXCEPT ![r].pc = "done"]
    /\ UNCHANGED detectedUnknownModels
    /\ RunStep

NextRuns ==
    \/ RunFetched
    \/ RunDetectItem
    \/ RunThrows
    \/ RunNotify

SpecRuns == InitRuns /\ [][NextRuns]_vars

\* the runs that showed the message about the unknown models
NotifyingRuns == { r \in DOMAIN runs : runs[r].notified }

\* C30: when runs of updateStats interleave at their await points, at most
\* one of them shows the message about the unknown models, and
\* detectedUnknownModels holds no two terms of which one contains the other.
C30_InterleavedRunsSafe ==
    /\ Cardinality(NotifyingRuns) <= 1
    /\ NotifyingRuns # {} => unknownModelNotificationShown
    /\ \A a \in detectedUnknownModels : \A b \in detectedUnknownModels :
          a # b => /\ ~Includes(ToLowerCase(a), ToLowerCase(b))
                   /\ ~Includes(ToLowerCase(b), ToLowerCase(a))

\* run 2 recorded 'glorbo-7-mini' before run 1 came to its 'glorbo-7', which
\* was therefore not recorded; run 1 has shown the message and is over while
\* run 2 waits in its list
C30_Witness ==
    /\ runs[1].pc = "done"
    /\ runs[1].notified
    /\ \E i \in 1 .. Len(runs[1].items) :
          ExtractedTerm(runs[1].items[i].description) = Glorbo7
    /\ runs[2].pc = "list"
    /\ runs[2].next = 2
    /\ Len(runs[2].items) = 2
    /\ ExtractedTerm(runs[2].items[1].description) = Glorbo7Mini
    /\ detectedUnknownModels = {Glorbo7Mini}

=============================================================================
